---------------------------- MODULE Spec2Model ----------------------------
(***************************************************************************)
(* Rule engine of the 10x10 checkers game: Board (game/board.py) and       *)
(* GameController (game/game_controller.py).                               *)
(*                                                                         *)
(* Python objects are modelled with a heap: a board cell holds 0 (empty,   *)
(* numpy's zero) or the identity of a Piece object, and `pieces` maps each *)
(* identity to the object's fields (color, type).  Board.copy() copies the *)
(* cells, that is the references, exactly as the code does.  The cell of   *)
(* board[row, col] is b[row + 1][col + 1].                                 *)
(***************************************************************************)
EXTENDS Integers, Sequences, FiniteSets, TLC

(***************************************************************************)
(* game/constants.py                                                       *)
(***************************************************************************)
BOARD_SIZE == 10
WHITE == "white"
BLACK == "black"
PION == "pion"
DAME == "dame"

(***************************************************************************)
(* Bounds of the exploration                                               *)
(***************************************************************************)
\* number of applied moves explored from each starting position
MaxMoves == 1

(***************************************************************************)
(* Python values                                                           *)
(***************************************************************************)
\* None as returned by get_piece for an out-of-range square
NoPiece == -1
\* None as held by selected_piece
NoSelection == <<>>
\* None as held by winner
NoWinner == "none"
\* no Board object
NoBoard == <<>>
\* the empty dict {}
EmptyMap == [k \in {} |-> <<>>]
\* truth value of a cell: a Piece object is truthy, 0 and None are not
Truthy(p) == p > 0

\* d[k] = v
Put(m, k, v) == [x \in (DOMAIN m) \cup {k} |-> IF x = k THEN v ELSE m[x]]
\* for k, v in n.items(): m[k] = f(v)      (here with the values already mapped)
Update(m, n) == [x \in (DOMAIN m) \cup (DOMAIN n) |-> IF x \in DOMAIN n THEN n[x] ELSE m[x]]
\* {k: [first] + v for k, v in n.items()}
Prefix(first, n) == [x \in DOMAIN n |-> <<first>> \o n[x]]

Pos == (0 .. BOARD_SIZE - 1) \X (0 .. BOARD_SIZE - 1)
\* the squares a caller passes to select() and move(): every dark square, the
\* light squares of the long diagonal, and squares outside the board
Clicks ==
    {p \in Pos : (p[1] + p[2]) % 2 = 1}
    \cup {<<i, i>> : i \in 0 .. BOARD_SIZE - 1}
    \cup {<<-1, -1>>, <<-1, 4>>, <<5, -1>>, <<BOARD_SIZE, 3>>, <<6, BOARD_SIZE>>,
          <<BOARD_SIZE, BOARD_SIZE>>}
Directions == << <<-1, -1>>, <<-1, 1>>, <<1, -1>>, <<1, 1>> >>

(***************************************************************************)
(* Board                                                                   *)
(***************************************************************************)
is_valid_position(row, col) ==
    0 <= row /\ row < BOARD_SIZE /\ 0 <= col /\ col < BOARD_SIZE

\* faulty variant: line 28 is missing, the cell is indexed without a test and a
\* negative index counts from the end of the array
get_piece_unchecked(b, row, col) == b[(row % BOARD_SIZE) + 1][(col % BOARD_SIZE) + 1]

get_piece(b, row, col) ==
    IF is_valid_position(row, col) THEN b[row + 1][col + 1] ELSE NoPiece

set_piece(b, row, col, piece) ==
    IF is_valid_position(row, col) THEN [b EXCEPT ![row + 1][col + 1] = piece] ELSE b

remove_piece(b, row, col) ==
    IF is_valid_position(row, col) THEN [b EXCEPT ![row + 1][col + 1] = 0] ELSE b

\* the board after move_piece; its boolean result is Truthy(get_piece(from))
move_piece(b, from_row, from_col, to_row, to_col) ==
    LET piece == get_piece(b, from_row, from_col)
    IN  IF Truthy(piece)
        THEN remove_piece(set_piece(b, to_row, to_col, piece), from_row, from_col)
        ELSE b

\* the squares that hold a piece
Occupied(b) ==
    UNION {{<<r - 1, c - 1>> : c \in {x \in DOMAIN b[r] : b[r][x] > 0}} : r \in DOMAIN b}

\* Board.copy: a new cell array holding the same references
copy(b) == [r \in DOMAIN b |-> [c \in DOMAIN b[r] |-> b[r][c]]]

RECURSIVE get_captures(_, _, _, _)

\* faulty variant: lines 98-104 are missing, a jump is never continued
PionCaptureDir_single_jump(b, h, row, col, d, captures) ==
    LET piece == get_piece(b, row, col)
        new_row == row + d[1]
        new_col == col + d[2]
        jump_row == new_row + d[1]
        jump_col == new_col + d[2]
    IN  IF /\ is_valid_position(new_row, new_col)
           /\ Truthy(get_piece(b, new_row, new_col))
           /\ h[get_piece(b, new_row, new_col)].color # h[piece].color
           /\ is_valid_position(jump_row, jump_col)
           /\ get_piece(b, jump_row, jump_col) = 0
        THEN Put(captures, <<jump_row, jump_col>>, << <<new_row, new_col>> >>)
        ELSE captures

\* faulty variant: line 92 is missing, a piece of either colour is jumped over
PionCaptureDir_any_color(b, h, row, col, d, captures) ==
    LET new_row == row + d[1]
        new_col == col + d[2]
        jump_row == new_row + d[1]
        jump_col == new_col + d[2]
    IN  IF /\ is_valid_position(new_row, new_col)
           /\ Truthy(get_piece(b, new_row, new_col))
           /\ is_valid_position(jump_row, jump_col)
           /\ get_piece(b, jump_row, jump_col) = 0
        THEN Put(captures, <<jump_row, jump_col>>, << <<new_row, new_col>> >>)
        ELSE captures

\* faulty variant: the pion is crowned on the temporary board when a jump
\* lands it on its promotion row, and the search goes on with a dame
PionCaptureDir_crowns_on_the_way(b, h, row, col, d, captures) ==
    LET piece == get_piece(b, row, col)
        new_row == row + d[1]
        new_col == col + d[2]
        jump_row == new_row + d[1]
        jump_col == new_col + d[2]
    IN  IF /\ is_valid_position(new_row, new_col)
           /\ Truthy(get_piece(b, new_row, new_col))
           /\ h[get_piece(b, new_row, new_col)].color # h[piece].color
           /\ is_valid_position(jump_row, jump_col)
           /\ get_piece(b, jump_row, jump_col) = 0
        THEN LET temp_board == remove_piece(
                                   move_piece(copy(b), row, col, jump_row, jump_col),
                                   new_row, new_col)
                 crowned == IF jump_row = (IF h[piece].color = WHITE THEN 0 ELSE BOARD_SIZE - 1)
                            THEN [h EXCEPT ![piece].type = DAME] ELSE h
                 next_captures == get_captures(temp_board, crowned, jump_row, jump_col)
             IN  Update(Put(captures, <<jump_row, jump_col>>, << <<new_row, new_col>> >>),
                        Prefix(<<new_row, new_col>>, next_captures))
        ELSE captures

\* faulty variant: a longest-chain rule, line 96 keeps the chain the map holds
\* for the landing when it is longer
PionCaptureDir_keeps_longer(b, h, row, col, d, captures) ==
    LET piece == get_piece(b, row, col)
        new_row == row + d[1]
        new_col == col + d[2]
        jump_row == new_row + d[1]
        jump_col == new_col + d[2]
    IN  IF /\ is_valid_position(new_row, new_col)
           /\ Truthy(get_piece(b, new_row, new_col))
           /\ h[get_piece(b, new_row, new_col)].color # h[piece].color
           /\ is_valid_position(jump_row, jump_col)
           /\ get_piece(b, jump_row, jump_col) = 0
        THEN LET temp_board == remove_piece(
                                   move_piece(copy(b), row, col, jump_row, jump_col),
                                   new_row, new_col)
                 next_captures == get_captures(temp_board, h, jump_row, jump_col)
                 direct == IF <<jump_row, jump_col>> \in DOMAIN captures
                           THEN captures
                           ELSE Put(captures, <<jump_row, jump_col>>, << <<new_row, new_col>> >>)
             IN  Update(direct, Prefix(<<new_row, new_col>>, next_captures))
        ELSE captures

\* one iteration of the loop over directions for a pion, lines 88-104
PionCaptureDir(b, h, row, col, d, captures) ==
    LET piece == get_piece(b, row, col)
        new_row == row + d[1]
        new_col == col + d[2]
        jump_row == new_row + d[1]
        jump_col == new_col + d[2]
    IN  IF /\ is_valid_position(new_row, new_col)
           /\ Truthy(get_piece(b, new_row, new_col))
           /\ h[get_piece(b, new_row, new_col)].color # h[piece].color
           /\ is_valid_position(jump_row, jump_col)
           /\ get_piece(b, jump_row, jump_col) = 0
        THEN LET temp_board == remove_piece(
                                   move_piece(copy(b), row, col, jump_row, jump_col),
                                   new_row, new_col)
                 next_captures == get_captures(temp_board, h, jump_row, jump_col)
             IN  Update(Put(captures, <<jump_row, jump_col>>, << <<new_row, new_col>> >>),
                        Prefix(<<new_row, new_col>>, next_captures))
        ELSE captures

\* faulty variant: lines 116-119 are missing, the scan does not pass over an
\* empty square
FirstOccupied_next_square(b, r, c, d) ==
    IF is_valid_position(r, c) /\ get_piece(b, r, c) # 0 THEN <<r, c>> ELSE <<>>

\* the first loop of a dame's direction, lines 113-128: the first occupied
\* square of the ray from (r, c), or <<>> when the ray leaves the board
RECURSIVE FirstOccupied(_, _, _, _)
FirstOccupied(b, r, c, d) ==
    IF ~is_valid_position(r, c) THEN <<>>
    ELSE IF get_piece(b, r, c) = 0 THEN FirstOccupied(b, r + d[1], c + d[2], d)
    ELSE <<r, c>>

\* the second loop of a dame's direction, lines 131-146
RECURSIVE DameLandings(_, _, _, _, _, _, _, _, _)
\* faulty variant: the loop of line 131 runs once, the dame lands right behind
\* the piece it takes
DameLandings_first_square(b, h, row, col, opponent_pos, r, c, d, captures) ==
    IF is_valid_position(r, c) /\ get_piece(b, r, c) = 0
    THEN LET temp_board == remove_piece(
                               move_piece(copy(b), row, col, r, c),
                               opponent_pos[1], opponent_pos[2])
             next_captures == get_captures(temp_board, h, r, c)
         IN  Update(Put(captures, <<r, c>>, <<opponent_pos>>),
                    Prefix(opponent_pos, next_captures))
    ELSE captures

DameLandings(b, h, row, col, opponent_pos, r, c, d, captures) ==
    IF is_valid_position(r, c) /\ get_piece(b, r, c) = 0
    THEN LET temp_board == remove_piece(
                               move_piece(copy(b), row, col, r, c),
                               opponent_pos[1], opponent_pos[2])
             next_captures == get_captures(temp_board, h, r, c)
         IN  DameLandings(b, h, row, col, opponent_pos, r + d[1], c + d[2], d,
                 Update(Put(captures, <<r, c>>, <<opponent_pos>>),
                        Prefix(opponent_pos, next_captures)))
    ELSE captures

\* one iteration of the loop over directions for a dame, lines 108-146
DameCaptureDir(b, h, row, col, d, captures) ==
    LET piece == get_piece(b, row, col)
        hit == FirstOccupied(b, row + d[1], col + d[2], d)
    IN  IF hit # <<>> /\ h[get_piece(b, hit[1], hit[2])].color # h[piece].color
        THEN DameLandings(b, h, row, col, hit, hit[1] + d[1], hit[2] + d[2], d, captures)
        ELSE captures

\* faulty variant: a pion looks for captures in its two forward directions only
get_captures_forward_only(b, h, row, col) ==
    LET piece == get_piece(b, row, col)
        forward == IF h[piece].color = WHITE THEN <<1, 2>> ELSE <<3, 4>>
    IN  IF ~Truthy(piece) THEN EmptyMap
        ELSE IF h[piece].type = PION
        THEN PionCaptureDir(b, h, row, col, Directions[forward[2]],
             PionCaptureDir(b, h, row, col, Directions[forward[1]], EmptyMap))
        ELSE DameCaptureDir(b, h, row, col, Directions[4],
             DameCaptureDir(b, h, row, col, Directions[3],
             DameCaptureDir(b, h, row, col, Directions[2],
             DameCaptureDir(b, h, row, col, Directions[1], EmptyMap))))

\* Board._get_captures
get_captures(b, h, row, col) ==
    LET piece == get_piece(b, row, col)
    IN  IF ~Truthy(piece) THEN EmptyMap
        ELSE IF h[piece].type = PION
        THEN PionCaptureDir(b, h, row, col, Directions[4],
             PionCaptureDir(b, h, row, col, Directions[3],
             PionCaptureDir(b, h, row, col, Directions[2],
             PionCaptureDir(b, h, row, col, Directions[1], EmptyMap))))
        ELSE DameCaptureDir(b, h, row, col, Directions[4],
             DameCaptureDir(b, h, row, col, Directions[3],
             DameCaptureDir(b, h, row, col, Directions[2],
             DameCaptureDir(b, h, row, col, Directions[1], EmptyMap))))

\* faulty variant: a pion steps in the four directions
PionStepDirections_backward_too(color) ==
    {<<-1, -1>>, <<-1, 1>>, <<1, -1>>, <<1, 1>>}

\* faulty variant: a pion steps straight ahead
PionStepDirections_straight(color) ==
    IF color = WHITE THEN {<<-1, 0>>} ELSE {<<1, 0>>}

\* the forward directions of a pion, line 58
PionStepDirections(color) ==
    IF color = WHITE THEN {<<-1, -1>>, <<-1, 1>>} ELSE {<<1, -1>>, <<1, 1>>}

\* faulty variant: the loop of line 70 is an if, a dame steps one square
DameSlide_one_square(b, r, c, d) ==
    IF is_valid_position(r, c) /\ get_piece(b, r, c) = 0 THEN {<<r, c>>} ELSE {}

\* the empty squares of the ray from (r, c), lines 70-74
RECURSIVE DameSlide(_, _, _, _)
DameSlide(b, r, c, d) ==
    IF is_valid_position(r, c) /\ get_piece(b, r, c) = 0
    THEN {<<r, c>>} \cup DameSlide(b, r + d[1], c + d[2], d)
    ELSE {}

\* the non-capturing steps of lines 57-74
simple_steps(b, h, row, col, color) ==
    IF h[get_piece(b, row, col)].type = PION
    THEN [p \in {q \in {<<row + d[1], col + d[2]>> : d \in PionStepDirections(color)} :
                    /\ is_valid_position(q[1], q[2])
                    /\ get_piece(b, q[1], q[2]) = 0} |-> <<>>]
    ELSE [p \in UNION {DameSlide(b, row + Directions[i][1], col + Directions[i][2],
                                 Directions[i]) : i \in 1 .. 4} |-> <<>>]

\* faulty variant: the early return of lines 54-55 is missing, the steps are
\* offered beside the captures
get_valid_moves_no_early_return(b, h, row, col, color) ==
    LET piece == get_piece(b, row, col)
    IN  IF Truthy(piece) /\ h[piece].color = color
        THEN Update(get_captures(b, h, row, col), simple_steps(b, h, row, col, color))
        ELSE EmptyMap

\* Board.get_valid_moves
get_valid_moves(b, h, row, col, color) ==
    LET piece == get_piece(b, row, col)
    IN  IF Truthy(piece) /\ h[piece].color = color
        THEN LET captures == get_captures(b, h, row, col)
             IN  IF captures # EmptyMap THEN captures
                 ELSE simple_steps(b, h, row, col, color)
        ELSE EmptyMap

(***************************************************************************)
(* GameController helpers                                                  *)
(***************************************************************************)
\* faulty variant: both branches of the conditional name BLACK
Opponent_always_black(player) == BLACK

\* BLACK if player == WHITE else WHITE, lines 283 and 335
Opponent(player) == IF player = WHITE THEN BLACK ELSE WHITE

\* faulty variant: the scan of the board finds no capture
check_captures_available_never(b, h, player) == FALSE

\* GameController.check_captures_available, for the given side to move
check_captures_available(b, h, player) ==
    \E row \in 0 .. BOARD_SIZE - 1, col \in 0 .. BOARD_SIZE - 1 :
        /\ Truthy(get_piece(b, row, col))
        /\ h[get_piece(b, row, col)].color = player
        /\ get_captures(b, h, row, col) # EmptyMap

\* faulty variant: every piece passes the gate of line 147
can_piece_capture_always(b, h, row, col) == TRUE

\* faulty variant: no piece passes the gate of line 147
can_piece_capture_never(b, h, row, col) == FALSE

\* GameController.can_piece_capture
can_piece_capture(b, h, row, col) == get_captures(b, h, row, col) # EmptyMap

(***************************************************************************)
(* The nesting of the calls of _get_captures: a call made at line 101 or   *)
(* 138 is one level below the call that makes it.  The depth is measured   *)
(* down to `limit` levels, the result is the smaller of the two.           *)
(***************************************************************************)
Max2(a, b) == IF a >= b THEN a ELSE b

\* faulty variant: line 100 (137) is missing, the piece jumped over stays on
\* the temporary board
temp_board_after_keeps_taken(b, row, col, to_row, to_col, taken) ==
    move_piece(copy(b), row, col, to_row, to_col)

\* temp_board of lines 98-100 and 135-137
temp_board_after(b, row, col, to_row, to_col, taken) ==
    remove_piece(move_piece(copy(b), row, col, to_row, to_col), taken[1], taken[2])

RECURSIVE recursion_depth(_, _, _, _, _)

\* lines 98-101 (135-138): the call made for one landing and the calls below it
LandingDepth(b, h, row, col, to, taken, limit) ==
    IF limit = 0 THEN 0
    ELSE 1 + recursion_depth(temp_board_after(b, row, col, to[1], to[2], taken),
                             h, to[1], to[2], limit - 1)

\* one iteration of the loop of line 88
PionDepthDir(b, h, row, col, d, limit) ==
    LET piece == get_piece(b, row, col)
        new_row == row + d[1]
        new_col == col + d[2]
        jump_row == new_row + d[1]
        jump_col == new_col + d[2]
    IN  IF /\ is_valid_position(new_row, new_col)
           /\ Truthy(get_piece(b, new_row, new_col))
           /\ h[get_piece(b, new_row, new_col)].color # h[piece].color
           /\ is_valid_position(jump_row, jump_col)
           /\ get_piece(b, jump_row, jump_col) = 0
        THEN LandingDepth(b, h, row, col, <<jump_row, jump_col>>, <<new_row, new_col>>, limit)
        ELSE 0

\* the loop of line 131 from (r, c)
RECURSIVE DameDepthLandings(_, _, _, _, _, _, _, _, _)
DameDepthLandings(b, h, row, col, opponent_pos, r, c, d, limit) ==
    IF is_valid_position(r, c) /\ get_piece(b, r, c) = 0
    THEN Max2(LandingDepth(b, h, row, col, <<r, c>>, opponent_pos, limit),
              DameDepthLandings(b, h, row, col, opponent_pos, r + d[1], c + d[2], d, limit))
    ELSE 0

\* one iteration of the loop of line 108
DameDepthDir(b, h, row, col, d, limit) ==
    LET piece == get_piece(b, row, col)
        hit == FirstOccupied(b, row + d[1], col + d[2], d)
    IN  IF hit # <<>> /\ h[get_piece(b, hit[1], hit[2])].color # h[piece].color
        THEN DameDepthLandings(b, h, row, col, hit, hit[1] + d[1], hit[2] + d[2], d, limit)
        ELSE 0

\* the deepest level of calls below _get_captures(row, col), at most limit
recursion_depth(b, h, row, col, limit) ==
    LET piece == get_piece(b, row, col)
    IN  IF ~Truthy(piece) THEN 0
        ELSE IF h[piece].type = PION
        THEN Max2(Max2(PionDepthDir(b, h, row, col, Directions[1], limit),
                       PionDepthDir(b, h, row, col, Directions[2], limit)),
                  Max2(PionDepthDir(b, h, row, col, Directions[3], limit),
                       PionDepthDir(b, h, row, col, Directions[4], limit)))
        ELSE Max2(Max2(DameDepthDir(b, h, row, col, Directions[1], limit),
                       DameDepthDir(b, h, row, col, Directions[2], limit)),
                  Max2(DameDepthDir(b, h, row, col, Directions[3], limit),
                       DameDepthDir(b, h, row, col, Directions[4], limit)))

(***************************************************************************)
(* The same queries over Board objects.  A store is the sequence of the    *)
(* cell arrays of the Board objects alive, a Board is its index in the     *)
(* store; every operator returns its result with the store it leaves.  The *)
(* Piece objects (h) are only read: lines 48-148 of board.py and 81-116 of *)
(* game_controller.py call no promote() and assign no attribute.           *)
(***************************************************************************)
\* faulty variant: copy returns self
Board_copy_returns_self(S, self) == [store |-> S, ref |-> self]

\* self.copy(): a new Board object, lines 150-155
Board_copy(S, self) == [store |-> Append(S, copy(S[self])), ref |-> Len(S) + 1]

\* temp_board = self.copy(); temp_board.move_piece(...); temp_board.remove_piece(...)
TempBoard(S, self, row, col, to_row, to_col, taken) ==
    LET made == Board_copy(S, self)
    IN  [store |-> [made.store EXCEPT ![made.ref] =
                       remove_piece(move_piece(@, row, col, to_row, to_col),
                                    taken[1], taken[2])],
         ref |-> made.ref]

RECURSIVE get_captures_on(_, _, _, _, _)

\* temp_board._get_captures(row, col), lines 101 and 138
SearchOn(temp_board, h, row, col) ==
    get_captures_on(temp_board.store, temp_board.ref, h, row, col)

\* lines 96 and 103-104 (133 and 140-141 for a dame): the landing and the
\* continuations found from it are written into captures; the temporary board
\* is dropped
Landed(acc, to, taken, next) ==
    [captures |-> Update(Put(acc.captures, to, <<taken>>), Prefix(taken, next.captures)),
     store |-> SubSeq(next.store, 1, Len(acc.store))]

\* one iteration of the loop of line 88; acc is [captures, store], piece is the
\* object read at line 79; the temporary board is dropped when the iteration ends
PionCaptureDirOn(acc, self, h, piece, row, col, d) ==
    LET b == acc.store[self]
        new_row == row + d[1]
        new_col == col + d[2]
        jump_row == new_row + d[1]
        jump_col == new_col + d[2]
    IN  IF /\ is_valid_position(new_row, new_col)
           /\ Truthy(get_piece(b, new_row, new_col))
           /\ h[get_piece(b, new_row, new_col)].color # h[piece].color
           /\ is_valid_position(jump_row, jump_col)
           /\ get_piece(b, jump_row, jump_col) = 0
        THEN Landed(acc, <<jump_row, jump_col>>, <<new_row, new_col>>,
                    SearchOn(TempBoard(acc.store, self, row, col, jump_row, jump_col,
                                       <<new_row, new_col>>),
                             h, jump_row, jump_col))
        ELSE acc

\* the loop of line 131 from (r, c)
RECURSIVE DameLandingsOn(_, _, _, _, _, _, _, _, _)
DameLandingsOn(acc, self, h, row, col, opponent_pos, r, c, d) ==
    IF is_valid_position(r, c) /\ get_piece(acc.store[self], r, c) = 0
    THEN DameLandingsOn(
             Landed(acc, <<r, c>>, opponent_pos,
                    SearchOn(TempBoard(acc.store, self, row, col, r, c, opponent_pos),
                             h, r, c)),
             self, h, row, col, opponent_pos, r + d[1], c + d[2], d)
    ELSE acc

\* one iteration of the loop of line 108
DameCaptureDirOn(acc, self, h, piece, row, col, d) ==
    LET b == acc.store[self]
        hit == FirstOccupied(b, row + d[1], col + d[2], d)
    IN  IF hit # <<>> /\ h[get_piece(b, hit[1], hit[2])].color # h[piece].color
        THEN DameLandingsOn(acc, self, h, row, col, hit, hit[1] + d[1], hit[2] + d[2], d)
        ELSE acc

\* self._get_captures(row, col) on the Board object self
get_captures_on(S, self, h, row, col) ==
    LET piece == get_piece(S[self], row, col)
        none == [captures |-> EmptyMap, store |-> S]
    IN  IF ~Truthy(piece) THEN none
        ELSE IF h[piece].type = PION
        THEN PionCaptureDirOn(
             PionCaptureDirOn(
             PionCaptureDirOn(
             PionCaptureDirOn(none, self, h, piece, row, col, Directions[1]),
                                    self, h, piece, row, col, Directions[2]),
                                    self, h, piece, row, col, Directions[3]),
                                    self, h, piece, row, col, Directions[4])
        ELSE DameCaptureDirOn(
             DameCaptureDirOn(
             DameCaptureDirOn(
             DameCaptureDirOn(none, self, h, piece, row, col, Directions[1]),
                                    self, h, piece, row, col, Directions[2]),
                                    self, h, piece, row, col, Directions[3]),
                                    self, h, piece, row, col, Directions[4])

\* self.get_valid_moves(row, col, color) on the Board object self
get_valid_moves_on(S, self, h, row, col, color) ==
    LET piece == get_piece(S[self], row, col)
    IN  IF Truthy(piece) /\ h[piece].color = color
        THEN LET found == get_captures_on(S, self, h, row, col)
             IN  IF found.captures # EmptyMap
                 THEN [moves |-> found.captures, store |-> found.store]
                 ELSE [moves |-> simple_steps(found.store[self], h, row, col, color),
                       store |-> found.store]
        ELSE [moves |-> EmptyMap, store |-> S]

\* the first cell from cell k on, row by row, that holds a piece, or the number
\* of cells when there is none
NextOccupied(b, k) ==
    LET ks == {j \in k .. BOARD_SIZE * BOARD_SIZE - 1 :
                   get_piece(b, j \div BOARD_SIZE, j % BOARD_SIZE) > 0}
    IN  IF ks = {} THEN BOARD_SIZE * BOARD_SIZE
        ELSE CHOOSE j \in ks : \A i \in ks : j <= i

\* the loops of lines 93-101 of check_captures_available from cell k, row by
\* row; the empty cells are passed over
RECURSIVE check_captures_available_on(_, _, _, _, _)
check_captures_available_on(S, self, h, player, k) ==
    LET at == NextOccupied(S[self], k)
        row == at \div BOARD_SIZE
        col == at % BOARD_SIZE
    IN  IF at >= BOARD_SIZE * BOARD_SIZE THEN [ret |-> FALSE, store |-> S]
        ELSE IF h[get_piece(S[self], row, col)].color = player
        THEN LET found == get_captures_on(S, self, h, row, col)
             IN  IF found.captures # EmptyMap
                 THEN [ret |-> TRUE, store |-> found.store]
                 ELSE check_captures_available_on(found.store, self, h, player, at + 1)
        ELSE check_captures_available_on(S, self, h, player, at + 1)

\* can_piece_capture(row, col) on the Board object self
can_piece_capture_on(S, self, h, row, col) ==
    LET found == get_captures_on(S, self, h, row, col)
    IN  [ret |-> found.captures # EmptyMap, store |-> found.store]

\* faulty variant: the colour is not compared
OwnPiece_any_color(h, piece, player) == Truthy(piece)

\* the test of line 145 on the piece found on the square
OwnPiece(h, piece, player) == Truthy(piece) /\ h[piece].color = player

\* the loop of lines 280-281 on the board
RECURSIVE RemoveCaptured(_, _)
RemoveCaptured(b, captured) ==
    IF captured = <<>> THEN b
    ELSE RemoveCaptured(remove_piece(b, Head(captured)[1], Head(captured)[2]), Tail(captured))

\* faulty variant: one decrement per capturing move
CountAfterCaptures_once(pc, player, captured) ==
    [pc EXCEPT ![Opponent(player)] = IF captured = <<>> THEN @ ELSE @ - 1]

\* the loop of lines 280-283 on piece_count: one decrement per captured square
CountAfterCaptures(pc, player, captured) ==
    [pc EXCEPT ![Opponent(player)] = @ - Len(captured)]

\* faulty variant: the row is not tested, a pion is crowned wherever it lands
ShouldPromote_any_row(h, piece, row) == Truthy(piece) /\ h[piece].type = PION

\* faulty variant: both colours promote on row 0
ShouldPromote_row_zero(h, piece, row) ==
    Truthy(piece) /\ h[piece].type = PION /\ row = 0

\* the promotion test of lines 290-291 on the piece found at the destination
ShouldPromote(h, piece, row) ==
    /\ Truthy(piece)
    /\ h[piece].type = PION
    /\ \/ h[piece].color = WHITE /\ row = 0
       \/ h[piece].color = BLACK /\ row = BOARD_SIZE - 1

\* Piece-object update of line 292
Promote(h, piece) == [h EXCEPT ![piece].type = DAME]

\* faulty variant: the counts are compared with 1, the game ends when a side
\* is down to its last piece
EndOfGame_last_piece(pc, over, win) ==
    IF pc[BLACK] <= 1 THEN <<TRUE, WHITE>>
    ELSE IF pc[WHITE] <= 1 THEN <<TRUE, BLACK>>
    ELSE <<over, win>>

\* faulty variant: the side left without pieces is named the winner
EndOfGame_loser_wins(pc, over, win) ==
    IF pc[BLACK] = 0 THEN <<TRUE, BLACK>>
    ELSE IF pc[WHITE] = 0 THEN <<TRUE, WHITE>>
    ELSE <<over, win>>

\* lines 323-332: <<game_over, winner>> after the counts were updated
EndOfGame(pc, over, win) ==
    IF pc[BLACK] = 0 THEN <<TRUE, WHITE>>
    ELSE IF pc[WHITE] = 0 THEN <<TRUE, BLACK>>
    ELSE <<over, win>>

(***************************************************************************)
(* Starting positions                                                      *)
(***************************************************************************)
\* faulty variant: the first loop of reset() stops one row early
StandardBoard_three_rows ==
    [r \in 1 .. BOARD_SIZE |-> [c \in 1 .. BOARD_SIZE |->
        LET row == r - 1
            col == c - 1
        IN  IF (row + col) % 2 = 1 /\ row < 3
            THEN row * (BOARD_SIZE \div 2) + (col \div 2) + 1
            ELSE IF (row + col) % 2 = 1 /\ row >= 6
            THEN 20 + (row - 6) * (BOARD_SIZE \div 2) + (col \div 2) + 1
            ELSE 0]]

\* Board.reset: cells of the standard setup, Piece objects numbered in the
\* order reset() creates them
StandardBoard ==
    [r \in 1 .. BOARD_SIZE |-> [c \in 1 .. BOARD_SIZE |->
        LET row == r - 1
            col == c - 1
        IN  IF (row + col) % 2 = 1 /\ row < 4
            THEN row * (BOARD_SIZE \div 2) + (col \div 2) + 1
            ELSE IF (row + col) % 2 = 1 /\ row >= 6
            THEN 20 + (row - 6) * (BOARD_SIZE \div 2) + (col \div 2) + 1
            ELSE 0]]

StandardPieces ==
    [i \in 1 .. 40 |-> [color |-> IF i <= 20 THEN BLACK ELSE WHITE, type |-> PION]]

\* Positions of play from which the exploration also starts, each a list of
\* <<row, col, color, type>>; every one is a position of a game in progress
\* (dark squares only, no pion on its promotion row).
\*   1  multi-jump and forced capture     2  capture chain returning to its start
\*   3  promotion                         4  last piece of either side en prise
\*   5  dames: flying capture and slides
\*   6  a dame whose capture chain ends on the square of the first piece it took
\*   7  a pion whose capture chain touches its promotion row and leaves it
\*   8  a side whose only piece has nowhere to go
MidGames ==
    << << <<6, 1, WHITE, PION>>, <<8, 7, WHITE, PION>>,
          <<5, 2, BLACK, PION>>, <<3, 4, BLACK, PION>>, <<1, 8, BLACK, PION>> >>,
       << <<6, 3, WHITE, PION>>, <<9, 8, WHITE, PION>>,
          <<5, 4, BLACK, PION>>, <<3, 4, BLACK, PION>>, <<3, 2, BLACK, PION>>,
          <<5, 2, BLACK, PION>>, <<0, 9, BLACK, PION>> >>,
       << <<1, 2, WHITE, PION>>, <<6, 5, WHITE, PION>>,
          <<8, 3, BLACK, PION>>, <<3, 6, BLACK, PION>> >>,
       << <<5, 4, WHITE, PION>>, <<4, 5, BLACK, PION>> >>,
       << <<9, 0, WHITE, DAME>>, <<8, 5, WHITE, PION>>,
          <<6, 3, BLACK, PION>>, <<2, 7, BLACK, PION>>, <<5, 8, BLACK, DAME>> >>,
       << <<9, 0, WHITE, DAME>>, <<9, 6, WHITE, PION>>,
          <<7, 2, BLACK, PION>>, <<4, 3, BLACK, PION>>, <<4, 1, BLACK, PION>>,
          <<6, 1, BLACK, PION>>, <<0, 5, BLACK, PION>> >>,
       << <<2, 1, WHITE, PION>>,
          <<1, 2, BLACK, PION>>, <<1, 4, BLACK, PION>>, <<0, 7, BLACK, PION>> >>,
       << <<1, 0, WHITE, PION>>,
          <<0, 1, BLACK, PION>>, <<4, 5, BLACK, PION>> >> >>

BoardOf(entries) ==
    [r \in 1 .. BOARD_SIZE |-> [c \in 1 .. BOARD_SIZE |->
        IF \E i \in 1 .. Len(entries) : <<entries[i][1], entries[i][2]>> = <<r - 1, c - 1>>
        THEN CHOOSE i \in 1 .. Len(entries) : <<entries[i][1], entries[i][2]>> = <<r - 1, c - 1>>
        ELSE 0]]

PiecesOf(entries) ==
    [i \in 1 .. Len(entries) |-> [color |-> entries[i][3], type |-> entries[i][4]]]

CountOf(entries, color) == Cardinality({i \in 1 .. Len(entries) : entries[i][3] = color})

(***************************************************************************)
(* GameController state                                                    *)
(***************************************************************************)
VARIABLES
    board,              \* Board.board: cell -> 0 or the identity of a Piece
    pieces,             \* the Piece objects: identity -> [color, type]
    current_player,
    selected_piece,     \* NoSelection or <<row, col>>
    valid_moves,        \* destination -> list of captured squares
    captures_available,
    game_over,
    winner,
    piece_count,
    last,               \* the last call: its return site and what move() hands to record_move
    nmoves,             \* moves applied since the start of the exploration
    board_copy          \* the Board returned by the last Board.copy(), NoBoard before it

vars == <<board, pieces, current_player, selected_piece, valid_moves,
          captures_available, game_over, winner, piece_count, last, nmoves, board_copy>>

\* the GameController fields, without the bookkeeping of the exploration
engine == <<board, pieces, current_player, selected_piece, valid_moves,
            captures_available, game_over, winner, piece_count>>

\* what select() is handed: the piece found on the square (line 144) seen from
\* the side to move
Target(row, col) ==
    LET piece == get_piece(board, row, col)
    IN  IF piece = NoPiece THEN "out_of_range"
        ELSE IF piece = 0 THEN "empty"
        ELSE IF pieces[piece].color = current_player THEN "own"
        ELSE "opponent"

\* a record of a call: the line it returned at and its result; for select, what
\* stood on the square and whether that piece could capture; for move, what
\* line 304 hands to record_move, and for a rejected move whether the call
\* before it was a successful move; for reset, whether a piece was selected and
\* whether the game was over; for a call on the copy of the board, the number
\* of calls made on that copy
Call(op, ret, line) ==
    [op |-> op, ret |-> ret, line |-> line, target |-> "none", capable |-> FALSE,
     reclick |-> FALSE, had_selection |-> FALSE, from |-> <<>>, to |-> <<>>, captured |-> <<>>,
     promoted |-> FALSE, streak |-> 0, after_move |-> FALSE, was_over |-> FALSE,
     calls |-> 0]

\* the record of a select(row, col): what stood on the square, whether it was
\* the selected square, whether a square was selected, whether the piece on
\* the square had a capture; a successful call also keeps its arguments
SelectCall(ret, line, row, col) ==
    [Call("select", ret, line) EXCEPT
        !.target = Target(row, col),
        !.reclick = (selected_piece = <<row, col>>),
        !.had_selection = (selected_piece # NoSelection),
        !.capable = Target(row, col) = "own" /\ get_captures(board, pieces, row, col) # EmptyMap,
        !.to = IF ret THEN <<row, col>> ELSE <<>>]

\* GameController.__init__ on a fresh Board, lines 31-46
InitStandard ==
    /\ board = StandardBoard
    /\ pieces = StandardPieces
    /\ current_player = WHITE
    /\ piece_count = [c \in {WHITE, BLACK} |-> 20]
    /\ last = Call("__init__", TRUE, 46)

\* a game in progress
InitMidGame ==
    \E i \in 1 .. Len(MidGames) :
        /\ board = BoardOf(MidGames[i])
        /\ pieces = PiecesOf(MidGames[i])
        /\ current_player \in {WHITE, BLACK}
        /\ piece_count = [c \in {WHITE, BLACK} |-> CountOf(MidGames[i], c)]
        /\ last = Call("none", FALSE, 0)

Init ==
    /\ InitStandard \/ InitMidGame
    /\ selected_piece = NoSelection
    /\ valid_moves = EmptyMap
    /\ captures_available = FALSE
    /\ game_over = FALSE
    /\ winner = NoWinner
    /\ nmoves = 0
    /\ board_copy = NoBoard

(***************************************************************************)
(* GameController.select, lines 118-155                                    *)
(***************************************************************************)
\* faulty variant: the move map of the deselected piece is kept
Deselect_keeps_moves(row, col) ==
    /\ selected_piece = <<row, col>>
    /\ selected_piece' = NoSelection
    /\ last' = SelectCall(FALSE, 138, row, col)
    /\ UNCHANGED <<board, pieces, current_player, captures_available, valid_moves,
                   game_over, winner, piece_count, nmoves, board_copy>>

\* lines 135-138: select() on the square that is selected
Deselect(row, col) ==
    /\ selected_piece = <<row, col>>
    /\ selected_piece' = NoSelection
    /\ valid_moves' = EmptyMap
    /\ last' = SelectCall(FALSE, 138, row, col)
    /\ UNCHANGED <<board, pieces, current_player, captures_available,
                   game_over, winner, piece_count, nmoves, board_copy>>

\* lines 143-155: select() on another square, once line 141 has stored
\* captures_available
SelectOther(row, col) ==
    LET piece == get_piece(board, row, col)
    IN  /\ selected_piece # <<row, col>>
        /\ IF OwnPiece(pieces, piece, current_player)
           THEN IF captures_available' /\ ~can_piece_capture(board, pieces, row, col)
                THEN /\ last' = SelectCall(FALSE, 148, row, col)
                     /\ UNCHANGED <<selected_piece, valid_moves>>
                ELSE /\ selected_piece' = <<row, col>>
                     /\ valid_moves' = get_valid_moves(board, pieces, row, col, current_player)
                     /\ last' = SelectCall(TRUE, 153, row, col)
           ELSE /\ last' = SelectCall(FALSE, 155, row, col)
                /\ UNCHANGED <<selected_piece, valid_moves>>
        /\ UNCHANGED <<board, pieces, current_player, game_over, winner,
                       piece_count, nmoves, board_copy>>

\* select() for every argument: line 141 does not depend on the arguments
Select ==
    \/ \E sq \in Clicks : Deselect(sq[1], sq[2])
    \/ /\ captures_available' = check_captures_available(board, pieces, current_player)
       /\ \E sq \in Clicks : SelectOther(sq[1], sq[2])

(***************************************************************************)
(* GameController.move, lines 249-339                                      *)
(***************************************************************************)
\* the test of line 265
MoveAccepted(row, col) ==
    selected_piece # NoSelection /\ <<row, col>> \in DOMAIN valid_moves

\* faulty variant: a rejected move drops the selection
MoveRejected_drops_selection ==
    /\ last' = [Call("move", FALSE, 339) EXCEPT
                   !.streak = IF last.op = "move" /\ ~last.ret THEN 2 ELSE 1,
                   !.after_move = (last.op = "move" /\ last.ret)]
    /\ selected_piece' = NoSelection
    /\ valid_moves' = EmptyMap
    /\ UNCHANGED <<board, pieces, current_player, captures_available, game_over,
                   winner, piece_count, nmoves, board_copy>>

\* faulty variant: a rejected move passes the turn
MoveRejected_passes_turn ==
    /\ last' = [Call("move", FALSE, 339) EXCEPT
                   !.streak = IF last.op = "move" /\ ~last.ret THEN 2 ELSE 1,
                   !.after_move = (last.op = "move" /\ last.ret)]
    /\ current_player' = Opponent(current_player)
    /\ UNCHANGED <<board, pieces, selected_piece, valid_moves, captures_available,
                   game_over, winner, piece_count, nmoves, board_copy>>

\* faulty variant: a rejected move starts the game again
MoveRejected_clears_result ==
    /\ last' = [Call("move", FALSE, 339) EXCEPT
                   !.streak = IF last.op = "move" /\ ~last.ret THEN 2 ELSE 1,
                   !.after_move = (last.op = "move" /\ last.ret)]
    /\ game_over' = FALSE
    /\ winner' = NoWinner
    /\ UNCHANGED <<board, pieces, current_player, selected_piece, valid_moves,
                   captures_available, piece_count, nmoves, board_copy>>

\* line 339: return False
MoveRejected ==
    /\ last' = [Call("move", FALSE, 339) EXCEPT
                   !.streak = IF last.op = "move" /\ ~last.ret THEN 2 ELSE 1,
                   !.after_move = (last.op = "move" /\ last.ret)]
    /\ UNCHANGED <<engine, nmoves, board_copy>>

\* faulty variant: lines 319-320 are missing, the selection outlives the move
MoveTo_keeps_selection(row, col) ==
    IF MoveAccepted(row, col)
    THEN LET from_row == selected_piece[1]
             from_col == selected_piece[2]
             captured == valid_moves[<<row, col>>]
             moved == move_piece(RemoveCaptured(board, captured), from_row, from_col, row, col)
             piece == get_piece(moved, row, col)
             was_promoted == ShouldPromote(pieces, piece, row)
             counts == CountAfterCaptures(piece_count, current_player, captured)
             ended == EndOfGame(counts, game_over, winner)
         IN  /\ nmoves < MaxMoves
             /\ board' = moved
             /\ pieces' = IF was_promoted THEN Promote(pieces, piece) ELSE pieces
             /\ piece_count' = counts
             /\ game_over' = ended[1]
             /\ winner' = ended[2]
             /\ current_player' = Opponent(current_player)
             /\ nmoves' = nmoves + 1
             /\ last' = [Call("move", TRUE, 337) EXCEPT
                            !.from = selected_piece, !.to = <<row, col>>,
                            !.captured = captured, !.promoted = was_promoted]
             /\ UNCHANGED <<selected_piece, valid_moves, captures_available, board_copy>>
    ELSE MoveRejected

MoveTo(row, col) ==
    IF MoveAccepted(row, col)
    THEN LET from_row == selected_piece[1]
             from_col == selected_piece[2]
             captured == valid_moves[<<row, col>>]
             moved == move_piece(RemoveCaptured(board, captured), from_row, from_col, row, col)
             piece == get_piece(moved, row, col)
             was_promoted == ShouldPromote(pieces, piece, row)
             counts == CountAfterCaptures(piece_count, current_player, captured)
             ended == EndOfGame(counts, game_over, winner)
         IN  /\ nmoves < MaxMoves
             /\ board' = moved
             /\ pieces' = IF was_promoted THEN Promote(pieces, piece) ELSE pieces
             /\ piece_count' = counts
             /\ selected_piece' = NoSelection
             /\ valid_moves' = EmptyMap
             /\ game_over' = ended[1]
             /\ winner' = ended[2]
             /\ current_player' = Opponent(current_player)
             /\ nmoves' = nmoves + 1
             /\ last' = [Call("move", TRUE, 337) EXCEPT
                            !.from = selected_piece, !.to = <<row, col>>,
                            !.captured = captured, !.promoted = was_promoted]
             /\ UNCHANGED <<captures_available, board_copy>>
    ELSE MoveRejected

Move == \E sq \in Clicks : MoveTo(sq[1], sq[2])

(***************************************************************************)
(* GameController.reset, lines 54-79                                       *)
(***************************************************************************)
\* faulty variant: lines 74-75 are missing, the result of the last game stays
Reset_keeps_result ==
    /\ board' = StandardBoard
    /\ pieces' = StandardPieces
    /\ current_player' = WHITE
    /\ selected_piece' = NoSelection
    /\ valid_moves' = EmptyMap
    /\ captures_available' = FALSE
    /\ piece_count' = [c \in {WHITE, BLACK} |-> 20]
    /\ nmoves' = 0
    /\ last' = [Call("reset", TRUE, 79) EXCEPT
                   !.had_selection = (selected_piece # NoSelection),
                   !.was_over = game_over]
    /\ UNCHANGED <<game_over, winner, board_copy>>

Reset ==
    /\ board' = StandardBoard
    /\ pieces' = StandardPieces
    /\ current_player' = WHITE
    /\ selected_piece' = NoSelection
    /\ valid_moves' = EmptyMap
    /\ captures_available' = FALSE
    /\ game_over' = FALSE
    /\ winner' = NoWinner
    /\ piece_count' = [c \in {WHITE, BLACK} |-> 20]
    /\ nmoves' = 0
    /\ last' = [Call("reset", TRUE, 79) EXCEPT
                   !.had_selection = (selected_piece # NoSelection),
                   !.was_over = game_over]
    /\ UNCHANGED board_copy

Next == Select \/ Move \/ Reset

Spec == Init /\ [][Next]_vars

(***************************************************************************)
(* AIPlayer.select_move, called by GameWindow.handle_ai_move for Black     *)
(* while the game is not over; the select and move that follow it are the  *)
(* calls of Next                                                           *)
(***************************************************************************)
\* AIPlayer(BLACK), game_window.py line 46
AIColor == BLACK

\* _get_possible_moves, lines 156-194: the keys (from_pos, to_pos)
possible_moves(b, h, color, player) ==
    LET own == {sq \in Occupied(b) : h[get_piece(b, sq[1], sq[2])].color = color}
        movers == IF check_captures_available(b, h, player)
                  THEN {sq \in own : can_piece_capture(b, h, sq[1], sq[2])}
                  ELSE own
    IN  UNION {{<<from, to>> : to \in DOMAIN get_valid_moves(b, h, from[1], from[2], color)} :
               from \in movers}

\* lines 238-247 and 263 of _evaluate_moves: the Piece objects after the move
\* was played by a temporary controller on b.copy(); the copy and the counts of
\* the temporary controller are dropped
SimulatedMove(b, h, from, to, color) ==
    LET test_board == copy(b)
        test_moves == get_valid_moves(test_board, h, from[1], from[2], color)
    IN  IF to \in DOMAIN test_moves
        THEN LET moved == move_piece(RemoveCaptured(test_board, test_moves[to]),
                                     from[1], from[2], to[1], to[2])
                 piece == get_piece(moved, to[1], to[2])
             IN  IF ShouldPromote(h, piece, to[1]) THEN Promote(h, piece) ELSE h
        ELSE h

\* the loop of line 232 over the possible moves; the outcome does not depend
\* on the order the moves are taken in
RECURSIVE evaluate_moves(_, _, _, _)
evaluate_moves(b, h, color, moves) ==
    IF moves = {} THEN h
    ELSE LET m == CHOOSE x \in moves : TRUE
         IN  evaluate_moves(b, SimulatedMove(b, h, m[1], m[2], color), color, moves \ {m})

\* select_move(game_controller), lines 113-154: None when there is no
\* possible move, the chosen move otherwise
SelectMove ==
    /\ current_player = AIColor
    /\ ~game_over
    /\ \E possible \in {possible_moves(board, pieces, AIColor, current_player)} :
           /\ pieces' = evaluate_moves(board, pieces, AIColor, possible)
           /\ last' = Call("select_move", possible # {}, 154)
    /\ UNCHANGED <<board, current_player, selected_piece, valid_moves, captures_available,
                   game_over, winner, piece_count, nmoves, board_copy>>

AINext == Next \/ SelectMove

AISpec == Init /\ [][AINext]_vars

(***************************************************************************)
(* The Board on its own: positions set up with set_piece and remove_piece, *)
(* as a caller of the Board does to try a position                         *)
(***************************************************************************)
\* number of Piece objects set_piece puts on an empty board
MaxPieces == 3

\* the squares pieces are set on: the long diagonal from (7,0) to (2,5) and
\* the squares around (4,3) and (6,1)
Squares ==
    {<<7, 0>>, <<6, 1>>, <<5, 2>>, <<4, 3>>, <<3, 4>>, <<2, 5>>,
     <<6, 3>>, <<5, 4>>, <<3, 2>>}
\* squares outside the board handed to set_piece and remove_piece
OutOfRange == {<<-1, 2>>, <<4, BOARD_SIZE>>}

\* the identity of the Piece object created for a square
PieceId(row, col) == row * BOARD_SIZE + col + 1

\* a board without pieces: np.zeros of line 12, or a Board whose pieces were
\* all taken off with remove_piece
EmptyBoard == [r \in 1 .. BOARD_SIZE |-> [c \in 1 .. BOARD_SIZE |-> 0]]

\* a position set up beforehand: a White pion in the middle of four Black pions
Surrounded ==
    << <<6, 3, WHITE, PION>>, <<5, 2, BLACK, PION>>, <<5, 4, BLACK, PION>>,
       <<3, 2, BLACK, PION>>, <<3, 4, BLACK, PION>> >>

\* the cells and the Piece objects after set_piece(row, col, Piece(color, type))
\* for every entry of a list
RECURSIVE SetUp(_, _, _)
SetUp(entries, b, h) ==
    IF entries = <<>> THEN <<b, h>>
    ELSE LET e == Head(entries)
         IN  SetUp(Tail(entries),
                   set_piece(b, e[1], e[2], PieceId(e[1], e[2])),
                   Put(h, PieceId(e[1], e[2]), [color |-> e[3], type |-> e[4]]))

InitBoard ==
    /\ \E entries \in {<<>>, Surrounded} :
           /\ board = SetUp(entries, EmptyBoard, EmptyMap)[1]
           /\ pieces = SetUp(entries, EmptyBoard, EmptyMap)[2]
    /\ current_player = WHITE
    /\ piece_count = [c \in {WHITE, BLACK} |-> 20]
    /\ last = Call("none", FALSE, 0)
    /\ selected_piece = NoSelection
    /\ valid_moves = EmptyMap
    /\ captures_available = FALSE
    /\ game_over = FALSE
    /\ winner = NoWinner
    /\ nmoves = 0
    /\ board_copy = NoBoard

\* board.set_piece(row, col, Piece(color, type)): a new piece on an empty
\* square, or in the place of the piece of an occupied square, while the board
\* holds fewer than MaxPieces pieces
SetPiece(row, col, color, type) ==
    /\ ~is_valid_position(row, col) \/ Cardinality(DOMAIN pieces) < MaxPieces
    /\ board' = set_piece(board, row, col, PieceId(row, col))
    /\ pieces' = IF is_valid_position(row, col)
                  THEN Put(pieces, PieceId(row, col), [color |-> color, type |-> type])
                  ELSE pieces
    /\ UNCHANGED <<current_player, selected_piece, valid_moves, captures_available,
                   game_over, winner, piece_count, last, nmoves, board_copy>>

\* board.remove_piece(row, col); the Piece object of the square is dropped
RemovePiece(row, col) ==
    /\ board' = remove_piece(board, row, col)
    /\ pieces' = [i \in {j \in DOMAIN pieces : j # get_piece(board, row, col)} |-> pieces[i]]
    /\ UNCHANGED <<current_player, selected_piece, valid_moves, captures_available,
                   game_over, winner, piece_count, last, nmoves, board_copy>>

BoardNext ==
    \/ \E sq \in Squares \cup OutOfRange, color \in {WHITE, BLACK}, type \in {PION, DAME} :
           SetPiece(sq[1], sq[2], color, type)
    \/ \E sq \in Squares \cup OutOfRange : RemovePiece(sq[1], sq[2])

BoardSpec == InitBoard /\ [][BoardNext]_vars

(***************************************************************************)
(* The queries of move generation, called on the authoritative board: the  *)
(* Board object is the first of the store, and the cells it holds when the *)
(* call returns are the board after the call.  The callers do what they    *)
(* want with the value returned; the calls themselves assign no field.     *)
(***************************************************************************)
\* everything but the cells of the board
Beside == <<pieces, current_player, selected_piece, valid_moves, captures_available,
            game_over, winner, piece_count, last, nmoves, board_copy>>

\* self.board._get_captures(row, col)
GetCaptures(row, col) ==
    /\ UNCHANGED Beside
    /\ board' = get_captures_on(<<board>>, 1, pieces, row, col).store[1]

\* self.board.get_valid_moves(row, col, color)
GetValidMoves(row, col, color) ==
    /\ UNCHANGED Beside
    /\ board' = get_valid_moves_on(<<board>>, 1, pieces, row, col, color).store[1]

\* self.check_captures_available()
CheckCapturesAvailable ==
    /\ UNCHANGED Beside
    /\ board' = check_captures_available_on(<<board>>, 1, pieces, current_player, 0).store[1]

\* self.can_piece_capture(row, col)
CanPieceCapture(row, col) ==
    /\ UNCHANGED Beside
    /\ board' = can_piece_capture_on(<<board>>, 1, pieces, row, col).store[1]

\* a call of one of the four queries
Query ==
    \/ \E sq \in Squares \cup OutOfRange : GetCaptures(sq[1], sq[2])
    \/ \E sq \in Squares \cup OutOfRange, color \in {WHITE, BLACK} :
           GetValidMoves(sq[1], sq[2], color)
    \/ CheckCapturesAvailable
    \/ \E sq \in Squares \cup OutOfRange : CanPieceCapture(sq[1], sq[2])

QueryNext == BoardNext \/ Query

QuerySpec == InitBoard /\ [][QueryNext]_vars

(***************************************************************************)
(* Board.copy and what a caller then does to the copy: set_piece,          *)
(* remove_piece, move_piece, and promote() on a piece it holds             *)
(***************************************************************************)
\* number of calls made on a copy
MaxCopyCalls == 2

\* the identity of the next Piece object
NewPieceId(h) == Cardinality(DOMAIN h) + 1

\* the record of a call on the copy
CopyCall(op, line) == [Call(op, TRUE, line) EXCEPT !.calls = last.calls + 1]

\* b2 = board.copy(), lines 150-155
CopyBoard ==
    /\ board_copy = NoBoard
    /\ board_copy' = copy(board)
    /\ last' = Call("copy", TRUE, 155)
    /\ UNCHANGED <<engine, nmoves>>

\* b2.set_piece(row, col, Piece(color, type))
CopySetPiece(row, col, color, type) ==
    /\ board_copy # NoBoard /\ last.calls < MaxCopyCalls
    /\ board_copy' = set_piece(board_copy, row, col, NewPieceId(pieces))
    /\ pieces' = Put(pieces, NewPieceId(pieces), [color |-> color, type |-> type])
    /\ last' = CopyCall("copy.set_piece", 34)
    /\ UNCHANGED <<board, current_player, selected_piece, valid_moves, captures_available,
                   game_over, winner, piece_count, nmoves>>

\* b2.remove_piece(row, col)
CopyRemovePiece(row, col) ==
    /\ board_copy # NoBoard /\ last.calls < MaxCopyCalls
    /\ board_copy' = remove_piece(board_copy, row, col)
    /\ last' = CopyCall("copy.remove_piece", 38)
    /\ UNCHANGED <<engine, nmoves>>

\* b2.move_piece(from_row, from_col, to_row, to_col)
CopyMovePiece(from_row, from_col, to_row, to_col) ==
    /\ board_copy # NoBoard /\ last.calls < MaxCopyCalls
    /\ board_copy' = move_piece(board_copy, from_row, from_col, to_row, to_col)
    /\ last' = [CopyCall("copy.move_piece", 46) EXCEPT
                   !.ret = Truthy(get_piece(board_copy, from_row, from_col))]
    /\ UNCHANGED <<engine, nmoves>>

\* b2.get_piece(row, col).promote(), as move() does at line 292 on the board
\* it is given
CopyPromote(row, col) ==
    /\ board_copy # NoBoard /\ last.calls < MaxCopyCalls
    /\ Truthy(get_piece(board_copy, row, col))
    /\ pieces' = Promote(pieces, get_piece(board_copy, row, col))
    /\ last' = CopyCall("copy.promote", 9)
    /\ UNCHANGED <<board, current_player, selected_piece, valid_moves, captures_available,
                   game_over, winner, piece_count, nmoves, board_copy>>

CopyNext ==
    \/ CopyBoard
    \/ \E sq \in Squares \cup OutOfRange, color \in {WHITE, BLACK}, type \in {PION, DAME} :
           CopySetPiece(sq[1], sq[2], color, type)
    \/ \E sq \in Squares \cup OutOfRange : CopyRemovePiece(sq[1], sq[2])
    \/ \E from \in Squares \cup OutOfRange, to \in Squares \cup OutOfRange :
           CopyMovePiece(from[1], from[2], to[1], to[2])
    \/ \E sq \in Squares : CopyPromote(sq[1], sq[2])

CopySpec == Init /\ [][CopyNext]_vars

(***************************************************************************)
(* Vocabulary of the properties                                            *)
(***************************************************************************)
Rows == 0 .. BOARD_SIZE - 1
\* the cell of a square of the board
Cell(b, sq) == b[sq[1] + 1][sq[2] + 1]
\* the piece object stands somewhere on the board
OnBoard(b, piece) == \E r \in DOMAIN b : \E c \in DOMAIN b[r] : b[r][c] = piece
\* the piece on the square has at least one capture
HasCapture(b, h, sq) == get_captures(b, h, sq[1], sq[2]) # EmptyMap
\* some piece of the player has at least one capture
AnyCapture(b, h, player) ==
    \E row \in Rows, col \in Rows :
        /\ Cell(b, <<row, col>>) > 0
        /\ h[Cell(b, <<row, col>>)].color = player
        /\ HasCapture(b, h, <<row, col>>)
Other(color) == IF color = WHITE THEN BLACK ELSE WHITE
\* the step is a call of select() / a successful move() / a rejected move()
SelectStep == last'.op = "select"
MovedStep == last'.op = "move" /\ last'.ret
RejectedMoveStep == last'.op = "move" /\ ~last'.ret

(***************************************************************************)
(* C1  Forced capture at selection: when some piece of current_player has  *)
(* a capture, select() on a piece of current_player that has none returns  *)
(* false and leaves selected_piece and valid_moves as they were.           *)
(***************************************************************************)
\* select() changes neither the board nor the side to move, so the captures
\* open to current_player are the same before and after the call.  In the
\* claim's case the call returns false and is no re-click of the selected
\* square (the one call that returns false and changes the selection); and a
\* call that returns false on another square keeps the selection.
C1_ForcedCaptureAtSelection ==
    /\ [][SelectStep => UNCHANGED <<board, pieces, current_player>>]_vars
    /\ []((/\ last.op = "select"
           /\ last.target = "own"
           /\ ~last.capable
           /\ AnyCapture(board, pieces, current_player))
          => (~last.ret /\ ~last.reclick))
    /\ [][(/\ SelectStep
           /\ last'.target = "own"
           /\ ~last'.capable
           /\ ~last'.ret
           /\ ~last'.reclick)
          => UNCHANGED <<selected_piece, valid_moves>>]_vars

C1_Witness ==
    /\ last.op = "select" /\ ~last.ret /\ last.line = 148
    /\ last.target = "own" /\ ~last.capable
    /\ AnyCapture(board, pieces, current_player)
    /\ selected_piece # NoSelection

(***************************************************************************)
(* C2  Mandatory capture in move generation: on every board, for every     *)
(* square holding a piece, when get_captures is not empty get_valid_moves  *)
(* for the piece's colour is exactly that capture map, and no destination  *)
(* of it has an empty capture list.                                        *)
(***************************************************************************)
C2_MandatoryCapture ==
    \A row \in Rows, col \in Rows :
        LET piece == get_piece(board, row, col)
            captures == get_captures(board, pieces, row, col)
            moves == get_valid_moves(board, pieces, row, col, pieces[piece].color)
        IN  (piece > 0 /\ captures # EmptyMap)
            => /\ moves = captures
               /\ \A to \in DOMAIN moves : moves[to] # <<>>

\* a piece is selected that has a capture and an empty square to step to
C2_Witness ==
    /\ last.op = "select" /\ last.ret
    /\ HasCapture(board, pieces, selected_piece)
    /\ simple_steps(board, pieces, selected_piece[1], selected_piece[2], current_player) # EmptyMap
    /\ valid_moves = get_captures(board, pieces, selected_piece[1], selected_piece[2])

(***************************************************************************)
(* C3  A successful move removes the piece of every square of the chosen   *)
(* destination's capture chain from the board and lowers the piece count   *)
(* of the opponent of current_player by the length of the chain; the       *)
(* mover's count is unchanged.                                             *)
(***************************************************************************)
\* every piece of the chain has left the board; its square is empty unless the
\* moving piece has landed on it
C3_CapturesRemovedAndCounted ==
    [][MovedStep =>
        LET chain == valid_moves[last'.to]
        IN  /\ last'.captured = chain
            /\ \A i \in 1 .. Len(chain) :
                   /\ Cell(board, chain[i]) > 0
                   /\ pieces[Cell(board, chain[i])].color = Other(current_player)
                   /\ ~OnBoard(board', Cell(board, chain[i]))
                   /\ chain[i] # last'.to => Cell(board', chain[i]) = 0
            /\ piece_count'[Other(current_player)]
                   = piece_count[Other(current_player)] - Len(chain)
            /\ piece_count'[current_player] = piece_count[current_player]]_vars

\* a chain of several captures was applied, one of them on the landing square
C3_Witness ==
    /\ last.op = "move" /\ last.ret
    /\ Len(last.captured) >= 2
    /\ \E i \in 1 .. Len(last.captured) : last.captured[i] = last.to
    /\ \A i \in 1 .. Len(last.captured) :
           last.captured[i] # last.to => Cell(board, last.captured[i]) = 0

(***************************************************************************)
(* C4  A successful move relocates the selected piece: after the call the  *)
(* destination square holds the piece that stood on selected_piece, for    *)
(* every destination of valid_moves, the starting square included.         *)
(***************************************************************************)
C4_PieceRelocated ==
    [][MovedStep =>
        /\ Cell(board, last'.from) > 0
        /\ Cell(board', last'.to) = Cell(board, last'.from)]_vars

(***************************************************************************)
(* C5  Promotion on move: a White pion moved to row 0, or a Black pion     *)
(* moved to row BOARD_SIZE-1, is a dame on the destination square right    *)
(* after the call; a pion landing on any other row is still a pion.        *)
(***************************************************************************)
C5_PromotionOnMove ==
    [][MovedStep =>
        LET piece == Cell(board, last'.from)
            row == last'.to[1]
        IN  pieces[piece].type = PION =>
                IF \/ pieces[piece].color = WHITE /\ row = 0
                   \/ pieces[piece].color = BLACK /\ row = BOARD_SIZE - 1
                THEN /\ Cell(board', last'.to) = piece
                     /\ pieces'[piece].type = DAME
                     /\ last'.promoted
                ELSE /\ pieces'[piece].type = PION
                     /\ ~last'.promoted]_vars

\* a Black pion has just been crowned on the last row
C5_Witness ==
    /\ last.op = "move" /\ last.ret /\ last.promoted
    /\ last.to[1] = BOARD_SIZE - 1
    /\ pieces[Cell(board, last.to)] = [color |-> BLACK, type |-> DAME]

(***************************************************************************)
(* C6  Win detection: the move that brings a colour's piece_count to 0     *)
(* sets game_over and names the other colour the winner in that same call; *)
(* a move that leaves both counts above 0 leaves game_over false and the   *)
(* winner empty.                                                           *)
(***************************************************************************)
C6_WinDetection ==
    [][MovedStep =>
        /\ \A c \in {WHITE, BLACK} :
               (piece_count[c] > 0 /\ piece_count'[c] = 0)
               => (last'.captured # <<>> /\ game_over' /\ winner' = Other(c))
        /\ (piece_count'[WHITE] > 0 /\ piece_count'[BLACK] > 0)
               => (~game_over' /\ winner' = NoWinner)]_vars

\* the last White piece has just been captured
C6_Witness ==
    /\ last.op = "move" /\ last.ret /\ last.captured # <<>>
    /\ piece_count[WHITE] = 0
    /\ game_over /\ winner = BLACK

(***************************************************************************)
(* C7  A rejected move leaves the state unchanged: move() with no piece    *)
(* selected, or with a square that is no key of valid_moves, returns false *)
(* and changes no field; a second such call in a row does the same.  A     *)
(* move that returns true had a piece selected and a key of valid_moves.   *)
(***************************************************************************)
C7_RejectedMoveNoMutation ==
    [][/\ RejectedMoveStep => UNCHANGED engine
       /\ (last'.op = "move" /\ selected_piece = NoSelection) => ~last'.ret
       /\ MovedStep => (last'.from = selected_piece /\ last'.to \in DOMAIN valid_moves)]_vars

\* two moves in a row were rejected while a piece with destinations is selected
C7_Witness ==
    /\ last.op = "move" /\ ~last.ret /\ last.streak = 2
    /\ selected_piece # NoSelection
    /\ valid_moves # EmptyMap

(***************************************************************************)
(* C8  select() on an empty square, on a piece of the opponent or outside  *)
(* the board (and not on the selected square) returns false and leaves     *)
(* selected_piece, valid_moves, the board, current_player and piece_count  *)
(* unchanged.                                                              *)
(***************************************************************************)
C8_SelectRejectsForeignSquare ==
    [][(/\ SelectStep
        /\ ~last'.reclick
        /\ last'.target \in {"empty", "opponent", "out_of_range"})
       => /\ ~last'.ret
          /\ UNCHANGED <<selected_piece, valid_moves, board, pieces,
                         current_player, piece_count>>]_vars

\* a piece of the opponent was clicked while a piece is selected
C8_Witness ==
    /\ last.op = "select" /\ ~last.ret /\ last.target = "opponent"
    /\ selected_piece # NoSelection
    /\ valid_moves # EmptyMap

(***************************************************************************)
(* C9  Deselect on re-click: select() on the selected square clears        *)
(* selected_piece and valid_moves, returns false and changes neither the   *)
(* board nor current_player.                                               *)
(***************************************************************************)
C9_DeselectOnReclick ==
    [][(SelectStep /\ last'.reclick)
       => /\ selected_piece' = NoSelection
          /\ valid_moves' = EmptyMap
          /\ ~last'.ret
          /\ UNCHANGED <<board, pieces, current_player>>]_vars

C9_Witness ==
    /\ last.op = "select" /\ last.reclick /\ ~last.ret
    /\ selected_piece = NoSelection
    /\ valid_moves = EmptyMap

(***************************************************************************)
(* C10  Successful selection: select() on a piece of current_player that   *)
(* passes the capture gate (no piece of current_player has a capture, or   *)
(* this piece has one) returns true and sets selected_piece to the square  *)
(* and valid_moves to get_valid_moves of it, whatever was selected before  *)
(* and also when that map is empty.                                        *)
(***************************************************************************)
\* select() changes neither the board nor the side to move, so the gate and
\* the move map are stated on the board the call has left
C10_SuccessfulSelection ==
    /\ [][SelectStep => UNCHANGED <<board, pieces, current_player>>]_vars
    /\ []((/\ last.op = "select"
           /\ ~last.reclick
           /\ last.target = "own"
           /\ (last.capable \/ ~AnyCapture(board, pieces, current_player)))
          => /\ last.ret
             /\ selected_piece = last.to
             /\ Cell(board, last.to) > 0
             /\ pieces[Cell(board, last.to)].color = current_player
             /\ valid_moves = get_valid_moves(board, pieces, last.to[1], last.to[2],
                                              current_player))

\* a blocked piece was selected while another piece was selected
C10_Witness ==
    /\ last.op = "select" /\ last.ret /\ last.had_selection
    /\ selected_piece = last.to
    /\ valid_moves = EmptyMap

(***************************************************************************)
(* C11  Turn alternation: a successful move hands the turn to the other    *)
(* colour, once, whatever the length of its capture chain and also when it *)
(* ends the game; select() and a rejected move leave current_player as it  *)
(* was, and between two resets nothing but a successful move changes it.   *)
(***************************************************************************)
C11_TurnAlternation ==
    [][/\ MovedStep => current_player' = Other(current_player)
       /\ (SelectStep \/ RejectedMoveStep) => UNCHANGED current_player
       /\ current_player' # current_player => (MovedStep \/ last'.op = "reset")]_vars

\* White has just taken the last Black piece: the game is over and the turn
\* went to Black all the same
C11_Witness ==
    /\ last.op = "move" /\ last.ret /\ last.from # last.to
    /\ game_over /\ winner = WHITE
    /\ current_player = BLACK

(***************************************************************************)
(* C12  Selection protocol: a successful move leaves selected_piece and    *)
(* valid_moves empty; the selection is filled by nothing but a successful  *)
(* select; and move() without a selection is rejected without any change,  *)
(* so a second move without a new successful select is rejected.           *)
(***************************************************************************)
C12_SelectionProtocol ==
    [][/\ MovedStep => (selected_piece' = NoSelection /\ valid_moves' = EmptyMap)
       /\ (selected_piece' # NoSelection /\ selected_piece' # selected_piece)
              => (SelectStep /\ last'.ret)
       /\ (last'.op = "move" /\ selected_piece = NoSelection)
              => (~last'.ret /\ UNCHANGED engine)
       /\ (last'.op = "move" /\ last.op = "move" /\ last.ret)
              => (~last'.ret /\ last'.after_move /\ UNCHANGED engine)]_vars

\* a move was issued right after a successful move, and rejected
C12_Witness ==
    /\ last.op = "move" /\ ~last.ret /\ last.after_move
    /\ selected_piece = NoSelection
    /\ valid_moves = EmptyMap
    /\ nmoves > 0

(***************************************************************************)
(* The position of a match start: Black pions on the dark squares of rows  *)
(* 0-3, White pions on the dark squares of rows 6-9, every other square    *)
(* empty, no Piece object on two squares.                                  *)
(***************************************************************************)
StartPosition(b, h) ==
    /\ \A row \in Rows, col \in Rows :
           LET piece == Cell(b, <<row, col>>)
           IN  IF (row + col) % 2 = 1 /\ row <= 3
               THEN piece > 0 /\ h[piece].color = BLACK /\ h[piece].type = PION
               ELSE IF (row + col) % 2 = 1 /\ row >= 6
               THEN piece > 0 /\ h[piece].color = WHITE /\ h[piece].type = PION
               ELSE piece = 0
    /\ \A p \in Pos, q \in Pos : (Cell(b, p) > 0 /\ Cell(b, p) = Cell(b, q)) => p = q

\* the number of pieces of a colour on the board
OnBoardCount(b, h, color) ==
    Cardinality({p \in Pos : Cell(b, p) > 0 /\ h[Cell(b, p)].color = color})

(***************************************************************************)
(* C13  reset() returns the engine to the state of a match start, whatever *)
(* was played before: standard board of 40 pions, White to move, nothing   *)
(* selected, no valid moves, 20 pieces counted for each colour, game not   *)
(* over and no winner.                                                     *)
(***************************************************************************)
C13_ResetRestoresStart ==
    last.op = "reset" =>
        /\ StartPosition(board, pieces)
        /\ OnBoardCount(board, pieces, WHITE) + OnBoardCount(board, pieces, BLACK) = 40
        /\ current_player = WHITE
        /\ selected_piece = NoSelection
        /\ valid_moves = EmptyMap
        /\ piece_count = [c \in {WHITE, BLACK} |-> 20]
        /\ ~game_over
        /\ winner = NoWinner

\* reset() was called on a game that was over
C13_Witness ==
    /\ last.op = "reset" /\ last.was_over
    /\ StartPosition(board, pieces)
    /\ ~game_over /\ winner = NoWinner

(***************************************************************************)
(* C14  Initial state: a new engine has exactly 20 Black pions on the dark *)
(* squares of rows 0-3, exactly 20 White pions on the dark squares of rows *)
(* 6-9, every other square empty, no dame, 20 pieces counted for each      *)
(* colour, White to move, nothing selected and the game not over.          *)
(***************************************************************************)
C14_InitialState ==
    last.op = "__init__" =>
        /\ StartPosition(board, pieces)
        /\ OnBoardCount(board, pieces, BLACK) = 20
        /\ OnBoardCount(board, pieces, WHITE) = 20
        /\ \A p \in Pos : Cell(board, p) > 0 => pieces[Cell(board, p)].type # DAME
        /\ piece_count[WHITE] = 20 /\ piece_count[BLACK] = 20
        /\ current_player = WHITE
        /\ selected_piece = NoSelection
        /\ valid_moves = EmptyMap
        /\ ~game_over
        /\ winner = NoWinner

\* the engine as __init__ has left it: the corner squares of both camps hold
\* pions, the two middle rows are empty
C14_Witness ==
    /\ last.op = "__init__"
    /\ pieces[Cell(board, <<0, 1>>)] = [color |-> BLACK, type |-> PION]
    /\ pieces[Cell(board, <<3, 8>>)] = [color |-> BLACK, type |-> PION]
    /\ pieces[Cell(board, <<6, 1>>)] = [color |-> WHITE, type |-> PION]
    /\ pieces[Cell(board, <<9, 8>>)] = [color |-> WHITE, type |-> PION]
    /\ \A col \in Rows : Cell(board, <<4, col>>) = 0 /\ Cell(board, <<5, col>>) = 0

(***************************************************************************)
(* Vocabulary of the capture rules: the single captures open to the piece  *)
(* of a square, in the order the search looks at them, the board after     *)
(* one of them, and the captures that continue it.                         *)
(***************************************************************************)
\* the k-th square of the diagonal that leaves sq in direction d
Along(sq, d, k) == <<sq[1] + k * d[1], sq[2] + k * d[2]>>
\* the square holds a piece of the other colour than the piece
Opposing(b, h, piece, sq) ==
    sq \in Pos /\ Cell(b, sq) > 0 /\ h[Cell(b, sq)].color # h[piece].color
\* the square is on the board and empty
FreeSquare(b, sq) == sq \in Pos /\ Cell(b, sq) = 0

\* a pion takes the piece next to it when the square behind is free
PionJumps(b, h, sq) ==
    {[dir |-> i, dist |-> 2,
      captured |-> Along(sq, Directions[i], 1),
      landing |-> Along(sq, Directions[i], 2)] :
        i \in {j \in 1 .. 4 :
                 /\ Opposing(b, h, Cell(b, sq), Along(sq, Directions[j], 1))
                 /\ FreeSquare(b, Along(sq, Directions[j], 2))}}

\* the distance of the first square of the diagonal that is not a free square
FirstBlocked(b, sq, d) ==
    CHOOSE k \in 1 .. BOARD_SIZE :
        /\ ~FreeSquare(b, Along(sq, d, k))
        /\ \A j \in 1 .. k - 1 : FreeSquare(b, Along(sq, d, j))

\* a dame takes the first piece of a diagonal and lands on any of the free
\* squares that follow it without a gap
DameJumps(b, h, sq) ==
    UNION {UNION {{[dir |-> i, dist |-> m,
                    captured |-> Along(sq, Directions[i], k),
                    landing |-> Along(sq, Directions[i], m)] :
                      m \in {n \in k + 1 .. BOARD_SIZE :
                               \A j \in k + 1 .. n :
                                   FreeSquare(b, Along(sq, Directions[i], j))}} :
                  k \in {x \in {FirstBlocked(b, sq, Directions[i])} :
                           Opposing(b, h, Cell(b, sq), Along(sq, Directions[i], x))}} :
           i \in 1 .. 4}

FirstJumps(b, h, sq) ==
    IF h[Cell(b, sq)].type = PION THEN PionJumps(b, h, sq) ELSE DameJumps(b, h, sq)

\* the hypothetical board: the piece moved to the landing, the captured piece
\* removed
AfterJump(b, sq, jump) ==
    [[[b EXCEPT ![sq[1] + 1][sq[2] + 1] = 0]
         EXCEPT ![jump.captured[1] + 1][jump.captured[2] + 1] = 0]
         EXCEPT ![jump.landing[1] + 1][jump.landing[2] + 1] = Cell(b, sq)]

\* the captures found from the landing square on the hypothetical board
Continuation(b, h, sq, jump) ==
    get_captures(AfterJump(b, sq, jump), h, jump.landing[1], jump.landing[2])

\* every first jump of the piece of the square with the captures that continue it
JumpSequences(b, h, sq) ==
    {[jump |-> j, next |-> Continuation(b, h, sq, j)] : j \in FirstJumps(b, h, sq)}

\* the sequence ends on the square: with its first jump, or with a continuation
EndsOn(seq, to) == to = seq.jump.landing \/ to \in DOMAIN seq.next

\* jump j2 is looked at after jump j1
Later(j2, j1) == j2.dir > j1.dir \/ (j2.dir = j1.dir /\ j2.dist > j1.dist)

(***************************************************************************)
(* C15  Multi-jump chains, as claimed: when a landing square allows a      *)
(* further capture on the hypothetical board, the map of get_captures      *)
(* holds the final landing square with the chain [captures so far] +       *)
(* [newly found captures].                                                 *)
(***************************************************************************)
C15_ChainOfEveryContinuation ==
    \A sq \in Occupied(board) :
        \A captures \in {get_captures(board, pieces, sq[1], sq[2])} :
            \A seq \in JumpSequences(board, pieces, sq) :
                \A to \in DOMAIN seq.next :
                    /\ to \in DOMAIN captures
                    /\ captures[to] = <<seq.jump.captured>> \o seq.next[to]

(***************************************************************************)
(* C15  Multi-jump chains, amended: the map holds the final landing square *)
(* as key, and its chain is [captures so far] + [newly found captures]     *)
(* unless a capture sequence the search looks at later ends on the same    *)
(* square.                                                                 *)
(***************************************************************************)
C15_MultiJumpChains ==
    \A sq \in Occupied(board) :
        \A captures \in {get_captures(board, pieces, sq[1], sq[2])},
           seqs \in {JumpSequences(board, pieces, sq)} :
            \A seq \in seqs :
                \A to \in DOMAIN seq.next :
                    /\ to \in DOMAIN captures
                    /\ (\A other \in seqs : Later(other.jump, seq.jump) => ~EndsOn(other, to))
                       => captures[to] = <<seq.jump.captured>> \o seq.next[to]

\* the position of the example: a White pion on (6,1), Black pions on (5,2)
\* and (3,4), (4,3) and (2,5) free
C15_Witness ==
    /\ Cell(board, <<6, 1>>) > 0
    /\ pieces[Cell(board, <<6, 1>>)] = [color |-> WHITE, type |-> PION]
    /\ Cell(board, <<5, 2>>) > 0 /\ pieces[Cell(board, <<5, 2>>)].color = BLACK
    /\ Cell(board, <<3, 4>>) > 0 /\ pieces[Cell(board, <<3, 4>>)].color = BLACK
    /\ Cell(board, <<4, 3>>) = 0 /\ Cell(board, <<2, 5>>) = 0
    /\ <<2, 5>> \in DOMAIN get_captures(board, pieces, 6, 1)
    /\ get_captures(board, pieces, 6, 1)[<<2, 5>>] = << <<5, 2>>, <<3, 4>> >>

(***************************************************************************)
(* C16  Pion single capture, as claimed: for every square holding a pion   *)
(* and each of the four directions in which the next square holds an       *)
(* opposing piece and the square behind it is on the board and empty, the  *)
(* map of get_captures holds that landing square with the one-element      *)
(* chain of the opposing piece's square.                                   *)
(***************************************************************************)
C16_OneElementChain ==
    \A sq \in Occupied(board) :
        pieces[Cell(board, sq)].type = PION =>
            \A jump \in PionJumps(board, pieces, sq) :
                LET captures == get_captures(board, pieces, sq[1], sq[2])
                IN  /\ jump.landing \in DOMAIN captures
                    /\ captures[jump.landing] = <<jump.captured>>

(***************************************************************************)
(* C16  Pion single capture, amended: the map holds that landing square,   *)
(* with the one-element chain of the opposing piece's square unless a      *)
(* sequence of several jumps that starts in the same or a later direction  *)
(* ends on that square.                                                    *)
(***************************************************************************)
C16_PionSingleCapture ==
    \A sq \in Occupied(board) :
        pieces[Cell(board, sq)].type = PION =>
            \A captures \in {get_captures(board, pieces, sq[1], sq[2])},
               seqs \in {JumpSequences(board, pieces, sq)} :
                \A jump \in PionJumps(board, pieces, sq) :
                    /\ jump.landing \in DOMAIN captures
                    /\ (\A other \in seqs :
                            other.jump.dir >= jump.dir => jump.landing \notin DOMAIN other.next)
                       => captures[jump.landing] = <<jump.captured>>

\* a pion that captures backwards, the landing square carrying the one-element
\* chain, while the square behind another opposing neighbour is not free
C16_Witness ==
    \E sq \in Occupied(board) :
        /\ pieces[Cell(board, sq)].type = PION
        /\ \E jump \in PionJumps(board, pieces, sq) :
               /\ IF pieces[Cell(board, sq)].color = WHITE
                  THEN jump.landing[1] > sq[1]
                  ELSE jump.landing[1] < sq[1]
               /\ get_captures(board, pieces, sq[1], sq[2])[jump.landing] = <<jump.captured>>
        /\ \E i \in 1 .. 4 :
               /\ Opposing(board, pieces, Cell(board, sq), Along(sq, Directions[i], 1))
               /\ ~FreeSquare(board, Along(sq, Directions[i], 2))

(***************************************************************************)
(* The dame of the square sees, in direction i, exactly one piece on the   *)
(* whole diagonal, k squares away, and it is an opposing piece.            *)
(***************************************************************************)
LoneOpposing(b, h, sq, i, k) ==
    /\ Opposing(b, h, Cell(b, sq), Along(sq, Directions[i], k))
    /\ \A j \in 1 .. BOARD_SIZE :
           (j # k /\ Along(sq, Directions[i], j) \in Pos)
           => Cell(b, Along(sq, Directions[i], j)) = 0

C18_IntermediateLandingNotReported ==
    \A sq \in Occupied(board) :
        \A captures \in {get_captures(board, pieces, sq[1], sq[2])} :
            \A seq \in JumpSequences(board, pieces, sq) :
                seq.next # EmptyMap
                => ~(/\ seq.jump.landing \in DOMAIN captures
                     /\ captures[seq.jump.landing] = <<seq.jump.captured>>)

(***************************************************************************)
(* C19  Board.copy() is a deep value copy: after b2 = b.copy(), a call     *)
(* that changes b2 (set_piece, remove_piece, move_piece on b2, or the      *)
(* promotion of a piece b2 holds) leaves every cell of b with the colour   *)
(* and the rank it had.                                                    *)
(***************************************************************************)
C19_CopyIsDeep ==
    [][(last'.op \in {"copy.set_piece", "copy.remove_piece", "copy.move_piece",
                      "copy.promote"})
       => \A sq \in Pos :
              /\ (Cell(board', sq) > 0) = (Cell(board, sq) > 0)
              /\ Cell(board, sq) > 0
                 => pieces'[Cell(board', sq)] = pieces[Cell(board, sq)]]_vars

(***************************************************************************)
(* C20  Move generation is read-only: a call of _get_captures,             *)
(* get_valid_moves, check_captures_available or can_piece_capture leaves   *)
(* the authoritative board (which squares are occupied, the colour and the *)
(* rank of the piece of each) and every field of the game state as they    *)
(* were, on every board and for every queried square.                      *)
(***************************************************************************)
C20_MoveGenerationReadOnly ==
    [][Query
       => /\ board' = board      \* each cell is empty or holds the Piece it held
          /\ pieces' = pieces    \* each Piece has the colour and the rank it had
          /\ UNCHANGED <<current_player, selected_piece, valid_moves, captures_available,
                         game_over, winner, piece_count>>]_vars

\* a board the queries are called on where the piece of some square has a
\* capture followed by another: the search moves it on a copy of a copy
C20_Witness ==
    \E sq \in Occupied(board) : \E seq \in JumpSequences(board, pieces, sq) :
        /\ seq.next # EmptyMap
        /\ get_captures_on(<<board>>, 1, pieces, sq[1], sq[2]).captures
               = get_captures(board, pieces, sq[1], sq[2])

(***************************************************************************)
(* C21  The AI's exploration of candidate moves never changes the          *)
(* authoritative board: when select_move returns, every cell of the board  *)
(* holds a piece of the colour and the rank it held before, or is empty as *)
(* before, also when a simulated move lands a pion on its promotion row.   *)
(***************************************************************************)
C21_ExplorationLeavesBoard ==
    [][last'.op = "select_move"
       => \A sq \in Pos :
              /\ (Cell(board', sq) > 0) = (Cell(board, sq) > 0)
              /\ Cell(board, sq) > 0
                 => pieces'[Cell(board', sq)] = pieces[Cell(board, sq)]]_vars

(***************************************************************************)
(* C22  Board.move_piece(from, to) returns false and leaves the board as   *)
(* it is when from holds no piece or is out of range; otherwise it returns *)
(* true, the piece that was at from is at to, from is empty and every      *)
(* other cell is unchanged, so that the board holds as many pieces as      *)
(* before whenever to was empty.                                           *)
(***************************************************************************)
\* the number of occupied cells
NumberOnBoard(b) == Cardinality(Occupied(b))

C22_MovePiece ==
    [][\A from \in Squares \cup OutOfRange, to \in Squares \cup OutOfRange :
           CopyMovePiece(from[1], from[2], to[1], to[2])
           => IF ~Truthy(get_piece(board_copy, from[1], from[2]))
              THEN ~last'.ret /\ board_copy' = board_copy
              ELSE /\ last'.ret
                   /\ get_piece(board_copy', to[1], to[2])
                          = get_piece(board_copy, from[1], from[2])
                   /\ get_piece(board_copy', from[1], from[2]) = 0
                   /\ \A sq \in Pos \ {from, to} :
                          Cell(board_copy', sq) = Cell(board_copy, sq)
                   /\ get_piece(board_copy, to[1], to[2]) = 0
                      => NumberOnBoard(board_copy') = NumberOnBoard(board_copy)]_vars

(***************************************************************************)
(* C23  Coordinates outside the board never raise: for a square outside    *)
(* 0..9 x 0..9, negative values included, get_piece returns None,          *)
(* set_piece and remove_piece leave the board as it is, and select and     *)
(* move with such a square return false.                                   *)
(***************************************************************************)
\* the squares outside the board among those handed to select() and move()
OutOfRangeClicks == {sq \in Clicks : ~is_valid_position(sq[1], sq[2])}

C23_OutOfRange ==
    /\ [](\A sq \in OutOfRangeClicks :
              /\ get_piece(board, sq[1], sq[2]) = NoPiece
              /\ remove_piece(board, sq[1], sq[2]) = board
              /\ \A piece \in DOMAIN pieces : set_piece(board, sq[1], sq[2], piece) = board)
    /\ [][\/ /\ ~last'.ret
              /\ UNCHANGED <<board, pieces, selected_piece, valid_moves,
                             current_player, piece_count, game_over, winner>>
           \/ ~(\/ /\ last'.op = "select"
                   /\ \E sq \in OutOfRangeClicks :
                          Deselect(sq[1], sq[2]) \/ SelectOther(sq[1], sq[2])
                \/ /\ last'.op = "move"
                   /\ \E sq \in OutOfRangeClicks : MoveTo(sq[1], sq[2]))]_vars

\* select() was called with a square outside the board while a piece that
\* can capture is selected
C23_Witness ==
    /\ last.op = "select" /\ last.target = "out_of_range" /\ ~last.ret
    /\ selected_piece # NoSelection
    /\ captures_available

(***************************************************************************)
(* C24  Count and board agree: in every state reached by select, move and  *)
(* reset calls, piece_count[c] is the number of pieces of colour c on the  *)
(* board, for both colours.                                                *)
(***************************************************************************)
C24_CountAgreesWithBoard ==
    \A color \in {WHITE, BLACK} : piece_count[color] = OnBoardCount(board, pieces, color)

(***************************************************************************)
(* C25  No piece is created or duplicated: along select and move calls     *)
(* (no reset) the number of pieces of each colour on the board and each    *)
(* piece_count value never increase, each piece occupies exactly one cell  *)
(* (a piece that was on the board and was not captured by the call is on   *)
(* exactly one cell after it), and the content of a cell changes only in   *)
(* a successful move.                                                      *)
(***************************************************************************)
\* the cells of the board that hold the Piece object
CellsOf(b, piece) == {sq \in Occupied(b) : Cell(b, sq) = piece}

\* the squares the call has captured on
CapturedBy(call) == {call.captured[i] : i \in 1 .. Len(call.captured)}

\* the colour and the rank seen on each square
Content(b, h) == [sq \in Occupied(b) |-> h[Cell(b, sq)]]

C25_CountsNeverIncrease ==
    [][last'.op # "reset"
       => \A color \in {WHITE, BLACK} :
              /\ OnBoardCount(board', pieces', color) <= OnBoardCount(board, pieces, color)
              /\ piece_count'[color] <= piece_count[color]]_vars

C25_ContentChangesInMoves ==
    [][Content(board', pieces') # Content(board, pieces) => MovedStep \/ last'.op = "reset"]_vars

C25_OneCellPerPiece ==
    [][last'.op # "reset"
       => \A sq \in Occupied(board) :
              IF MovedStep /\ sq \in CapturedBy(last')
              THEN CellsOf(board', Cell(board, sq)) = {}
              ELSE Cardinality(CellsOf(board', Cell(board, sq))) = 1]_vars

C25_NoPieceCreatedOrDuplicated ==
    /\ C25_CountsNeverIncrease
    /\ C25_ContentChangesInMoves
    /\ C25_OneCellPerPiece

(***************************************************************************)
(* C26  The game is over only by the zero-count rule: in every reachable   *)
(* state game_over is true exactly when piece_count[White] = 0 or          *)
(* piece_count[Black] = 0, and winner is set exactly when game_over is     *)
(* true, to the colour whose count is not 0.                               *)
(***************************************************************************)
C26_GameOverByZeroCount ==
    /\ game_over <=> (piece_count[WHITE] = 0 \/ piece_count[BLACK] = 0)
    /\ (winner # NoWinner) <=> game_over
    /\ game_over => /\ winner \in {WHITE, BLACK}
                    /\ piece_count[winner] # 0
                    /\ piece_count[Other(winner)] = 0

\* select() was called after White took the last Black piece
C26_Witness ==
    /\ game_over /\ winner = WHITE /\ piece_count[BLACK] = 0
    /\ last.op = "select" /\ nmoves > 0

(***************************************************************************)
(* C27  GameOver is absorbing: once game_over is true, every select and    *)
(* move call (reset apart) leaves game_over true and winner as it is.      *)
(***************************************************************************)
C27_GameOverAbsorbing ==
    [][game_over /\ last'.op # "reset" => game_over' /\ winner' = winner]_vars

\* a move() was rejected after Black took the last White piece
C27_Witness ==
    /\ game_over /\ winner = BLACK
    /\ last.op = "move" /\ ~last.ret /\ last.after_move

(***************************************************************************)
(* C28  After game_over has become true every select and move call returns *)
(* false and leaves the board, piece_count and current_player unchanged:   *)
(* the side to move is the side that has no piece left.                    *)
(***************************************************************************)
C28_NoPlayAfterGameOver ==
    /\ [](game_over => OnBoardCount(board, pieces, current_player) = 0)
    /\ [][game_over /\ last'.op \in {"select", "move"}
          => /\ ~last'.ret
             /\ UNCHANGED <<board, pieces, piece_count, current_player>>]_vars

\* after the game is over the side to move has clicked on a piece of the winner
C28_Witness ==
    /\ game_over
    /\ last.op = "select" /\ ~last.ret /\ last.target = "opponent"
    /\ \E sq \in Occupied(board) : pieces[Cell(board, sq)].color = winner

(***************************************************************************)
(* C29  Forced capture across select and move: in every reachable state    *)
(* where some piece of current_player has a capture on the board, a        *)
(* successful move captures at least one piece; a step that captures       *)
(* nothing is never applied while the mover has a capture.                 *)
(***************************************************************************)
C29_ForcedCaptureAcrossProtocol ==
    [][MovedStep /\ AnyCapture(board, pieces, current_player)
       => /\ last'.captured # <<>>
          /\ \A i \in 1 .. Len(last'.captured) : Cell(board', last'.captured[i]) = 0
                                                 \/ last'.captured[i] = last'.to]_vars

\* a move has taken exactly one piece, by a piece that also had a square to
\* step to, and the game goes on
C29_Witness ==
    /\ last.op = "move" /\ last.ret /\ Len(last.captured) = 1
    /\ ~game_over /\ ~last.promoted
    /\ \E d \in 1 .. 4 :
           LET sq == <<last.from[1] + Directions[d][1], last.from[2] + Directions[d][2]>>
           IN  is_valid_position(sq[1], sq[2]) /\ get_piece(board, sq[1], sq[2]) = 0
               /\ sq # last.captured[1]

(***************************************************************************)
(* C30  Selection consistency: in every reachable state, when a square is  *)
(* selected it holds a piece of current_player and valid_moves is          *)
(* get_valid_moves of that square for current_player on the board as it    *)
(* is; when no square is selected valid_moves is empty.                    *)
(***************************************************************************)
C30_SelectionConsistency ==
    IF selected_piece # NoSelection
    THEN /\ OwnPiece(pieces, get_piece(board, selected_piece[1], selected_piece[2]),
                     current_player)
         /\ valid_moves = get_valid_moves(board, pieces, selected_piece[1],
                                          selected_piece[2], current_player)
    ELSE valid_moves = EmptyMap

\* a piece is selected whose moves are steps without capture, after a click on
\* another square was refused
C30_Witness ==
    /\ selected_piece # NoSelection
    /\ valid_moves # EmptyMap
    /\ \A to \in DOMAIN valid_moves : valid_moves[to] = <<>>
    /\ last.op = "select" /\ ~last.ret /\ last.target = "empty"

(***************************************************************************)
(* C31  The capture search terminates on every board and every start       *)
(* square: the calls of _get_captures nest no deeper than the number of    *)
(* opposing pieces on the board, and every chain of the returned map is no *)
(* longer than that number.                                                *)
(***************************************************************************)
\* the number of pieces on the board of the other colour than the piece of sq
OpposingCount(b, h, sq) ==
    Cardinality({o \in Occupied(b) : h[Cell(b, o)].color # h[Cell(b, sq)].color})

C31_SearchTerminates ==
    [](\A sq \in Occupied(board) :
              \A n \in {OpposingCount(board, pieces, sq)},
                 captures \in {get_captures(board, pieces, sq[1], sq[2])} :
                  /\ recursion_depth(board, pieces, sq[1], sq[2], n + 1) <= n
                  /\ \A to \in DOMAIN captures : Len(captures[to]) <= n)

\* a piece takes every opposing piece of the board in one chain, two at least:
\* the search goes as deep as there are opposing pieces
C31_Witness ==
    \E sq \in Occupied(board) :
        LET n == OpposingCount(board, pieces, sq)
            captures == get_captures(board, pieces, sq[1], sq[2])
        IN  /\ n >= 2
            /\ recursion_depth(board, pieces, sq[1], sq[2], n + 1) = n
            /\ \E to \in DOMAIN captures : Len(captures[to]) = n

(***************************************************************************)
(* C32  Every chain of every map returned by get_captures lists pairwise   *)
(* distinct squares, each holding a piece of the other colour than the     *)
(* capturing piece on the board the search started from; hence the squares *)
(* a successful move clears (lines 280-283) each held a piece of the       *)
(* opponent, no two of them are the same square, the count of the opponent *)
(* goes down by one per piece taken off, and every other piece of the      *)
(* mover's side stays on its square.                                       *)
(***************************************************************************)
\* the squares of the chain are pairwise distinct
DistinctSquares(chain) ==
    \A i \in 1 .. Len(chain), j \in 1 .. Len(chain) : i # j => chain[i] # chain[j]

C32_ChainsOfOpposingPieces ==
    /\ [](\A sq \in Occupied(board) :
              \A captures \in {get_captures(board, pieces, sq[1], sq[2])} :
                  \A to \in DOMAIN captures :
                      /\ DistinctSquares(captures[to])
                      /\ \A i \in 1 .. Len(captures[to]) :
                             Opposing(board, pieces, Cell(board, sq), captures[to][i]))
    /\ [][MovedStep =>
            /\ DistinctSquares(last'.captured)
            /\ \A i \in 1 .. Len(last'.captured) :
                   /\ Cell(board, last'.captured[i]) > 0
                   /\ pieces[Cell(board, last'.captured[i])].color = Opponent(current_player)
            /\ piece_count'[Opponent(current_player)]
                   = piece_count[Opponent(current_player)]
                     - Cardinality({Cell(board, last'.captured[i]) :
                                        i \in 1 .. Len(last'.captured)})
            /\ \A sq \in Occupied(board) \ {last'.from} :
                   pieces[Cell(board, sq)].color = current_player
                   => Cell(board', sq) = Cell(board, sq)]_vars

\* a pion has taken two pieces in one move and stands on its landing square,
\* and another piece of its side is on the board
C32_Witness ==
    /\ last.op = "move" /\ last.ret /\ Len(last.captured) = 2
    /\ Cell(board, last.to) > 0 /\ pieces[Cell(board, last.to)].type = PION
    /\ \A i \in 1 .. 2 : Cell(board, last.captured[i]) = 0
    /\ \E sq \in Occupied(board) \ {last.to} :
           pieces[Cell(board, sq)].color = pieces[Cell(board, last.to)].color

(***************************************************************************)
(* C33  Promotion is checked once, at the final landing: a pion whose      *)
(* capture chain lands on its promotion row on the way and ends on another *)
(* row is still a pion after the move, and every chain found for a pion,   *)
(* also past a landing on the promotion row, is a sequence of jumps over   *)
(* an adjacent square to the square right behind it.                       *)
(***************************************************************************)
\* the row a piece of the colour is crowned on
PromotionRow(color) == IF color = WHITE THEN 0 ELSE BOARD_SIZE - 1

\* the landings of a pion that leaves `from` and jumps over the squares of the
\* chain, each landing right behind the square jumped over
RECURSIVE ManLandings(_, _)
ManLandings(from, chain) ==
    IF chain = <<>> THEN <<>>
    ELSE LET landing == <<2 * Head(chain)[1] - from[1], 2 * Head(chain)[2] - from[2]>>
         IN  <<landing>> \o ManLandings(landing, Tail(chain))

\* every square of the chain is a diagonal neighbour of the square the pion
\* jumps from
AdjacentJumps(from, chain) ==
    \A i \in 1 .. Len(chain) :
        LET at == IF i = 1 THEN from ELSE ManLandings(from, chain)[i - 1]
        IN  \E d \in 1 .. 4 : chain[i] = Along(at, Directions[d], 1)

\* the chain lands on the row before its last landing
TouchesRow(from, chain, row) ==
    \E i \in 1 .. Len(chain) - 1 : ManLandings(from, chain)[i][1] = row

C33_PromotionAtFinalLanding ==
    /\ [](\A sq \in Occupied(board) :
              pieces[Cell(board, sq)].type = PION =>
                  \A captures \in {get_captures(board, pieces, sq[1], sq[2])} :
                      \A to \in DOMAIN captures :
                          /\ AdjacentJumps(sq, captures[to])
                          /\ ManLandings(sq, captures[to])[Len(captures[to])] = to)
    /\ [][MovedStep =>
            LET piece == Cell(board, last'.from)
            IN  (/\ pieces[piece].type = PION
                 /\ last'.to[1] # PromotionRow(pieces[piece].color))
                => /\ pieces'[piece].type = PION
                   /\ ~last'.promoted]_vars

\* a White pion has taken two pieces, landed on row 0 between the two, ended
\* on another row and is a pion still
C33_Witness ==
    /\ last.op = "move" /\ last.ret
    /\ Cell(board, last.to) > 0
    /\ pieces[Cell(board, last.to)] = [color |-> WHITE, type |-> PION]
    /\ TouchesRow(last.from, last.captured, 0)
    /\ last.to[1] # 0

(***************************************************************************)
(* C34  Rank is monotone: in every call of select or move, a dame stays a  *)
(* dame, every piece keeps its colour, and a pion becomes a dame only in a *)
(* successful move that lands it on its promotion row.                     *)
(***************************************************************************)
C34_RankMonotone ==
    [][(last'.op \in {"select", "move"} /\ pieces' # pieces) =>
        /\ DOMAIN pieces' = DOMAIN pieces
        /\ \A p \in DOMAIN pieces :
               /\ pieces'[p].color = pieces[p].color
               /\ pieces[p].type = DAME => pieces'[p].type = DAME
               /\ (pieces[p].type = PION /\ pieces'[p].type # PION)
                  => /\ MovedStep
                     /\ pieces'[p].type = DAME
                     /\ Cell(board, last'.from) = p
                     /\ Cell(board', last'.to) = p
                     /\ last'.to[1] = PromotionRow(pieces[p].color)]_vars

\* a pion was crowned by the last move, the other side has since selected a
\* piece, and the crowned piece is a dame of its colour on its promotion row
C34_Witness ==
    /\ last.op = "select" /\ last.ret /\ nmoves > 0
    /\ \E sq \in Occupied(board) :
           /\ pieces[Cell(board, sq)].type = DAME
           /\ pieces[Cell(board, sq)].color = Opponent(current_player)
           /\ sq[1] = PromotionRow(pieces[Cell(board, sq)].color)
    /\ \A sq \in Occupied(board) :
           pieces[Cell(board, sq)].color = current_player
           => pieces[Cell(board, sq)].type = PION

(***************************************************************************)
(* C35  Dark-square invariant: in every state reached from the initial     *)
(* state through select and move, every occupied square (row, col) has     *)
(* row + col odd, and so has every destination of get_valid_moves and      *)
(* every square of its capture chains, for every piece of the board and    *)
(* for the selected piece.                                                 *)
(***************************************************************************)
Dark(sq) == (sq[1] + sq[2]) % 2 = 1

\* every key of the map and every square of its chains is a dark square
DarkMoves(moves) ==
    \A to \in DOMAIN moves :
        Dark(to) /\ \A i \in 1 .. Len(moves[to]) : Dark(moves[to][i])

C35_DarkSquares ==
    /\ \A sq \in Occupied(board) :
           /\ Dark(sq)
           /\ DarkMoves(get_valid_moves(board, pieces, sq[1], sq[2],
                                        pieces[Cell(board, sq)].color))
    /\ DarkMoves(valid_moves)

\* after a move, a piece is selected that has a step to make and another that
\* has a capture to make is on the board
C35_Witness ==
    /\ nmoves > 0 /\ selected_piece # NoSelection
    /\ valid_moves # EmptyMap
    /\ \A to \in DOMAIN valid_moves : valid_moves[to] = <<>>
    /\ \E sq \in Occupied(board) : HasCapture(board, pieces, sq)

(***************************************************************************)
(* C36  Duplicate destinations: the map of get_captures holds the squares  *)
(* some capture sequence ends on, and for each of them the chain of the    *)
(* sequence computed last in the search order: the sequence of the latest  *)
(* first jump (direction after direction, and along a direction landing    *)
(* after landing) that ends on the square, with the chain of its           *)
(* continuation when a continuation ends there and the one-element chain   *)
(* of the direct landing otherwise.  The length of the chains plays no     *)
(* part.                                                                   *)
(***************************************************************************)
\* the sequence of the set that the search looks at last
LastComputed(seqs) ==
    CHOOSE seq \in seqs : \A other \in seqs : ~Later(other.jump, seq.jump)

\* the chain a sequence writes for a square it ends on: the direct landing is
\* written first, a continuation that ends on the square after it
ChainWritten(seq, to) ==
    IF to \in DOMAIN seq.next
    THEN <<seq.jump.captured>> \o seq.next[to]
    ELSE <<seq.jump.captured>>

C36_LastComputedChain ==
    [](\A sq \in Occupied(board) :
              \A captures \in {get_captures(board, pieces, sq[1], sq[2])},
                 seqs \in {JumpSequences(board, pieces, sq)} :
                  /\ DOMAIN captures
                         = UNION {{seq.jump.landing} \cup DOMAIN seq.next : seq \in seqs}
                  /\ \A to \in DOMAIN captures :
                         captures[to]
                             = ChainWritten(LastComputed({seq \in seqs : EndsOn(seq, to)}), to))

\* two capture sequences of a piece end on one square, and the map holds the
\* chain of the later one, shorter than the chain of the earlier
C36_Witness ==
    \E sq \in Occupied(board) :
        LET captures == get_captures(board, pieces, sq[1], sq[2])
            seqs == JumpSequences(board, pieces, sq)
        IN  \E early \in seqs, late \in seqs :
                \E to \in DOMAIN captures :
                    /\ Later(late.jump, early.jump)
                    /\ EndsOn(early, to) /\ EndsOn(late, to)
                    /\ captures[to] = ChainWritten(late, to)
                    /\ Len(ChainWritten(early, to)) > Len(captures[to])

(***************************************************************************)
(* C37  Dame capture ray rules: along each diagonal the scan of a dame     *)
(* passes over empty squares; when the first occupied square holds a piece *)
(* of the dame's colour, or the edge is reached, the direction yields no   *)
(* capture; when it holds an opposing piece, the direct landings are       *)
(* exactly the empty squares that follow it without a gap, so an opposing  *)
(* piece directly followed by another piece or by the edge is not          *)
(* capturable in that direction.                                           *)
(***************************************************************************)
\* the landings of the rule in direction i: none unless the first square of
\* the diagonal that is not free holds an opposing piece, and then the free
\* squares that follow it without a gap
RayLandings(b, h, sq, i) ==
    LET d == Directions[i]
        k == FirstBlocked(b, sq, d)
    IN  IF Opposing(b, h, Cell(b, sq), Along(sq, d, k))
        THEN {Along(sq, d, m) : m \in {n \in k + 1 .. BOARD_SIZE :
                                         \A j \in k + 1 .. n : FreeSquare(b, Along(sq, d, j))}}
        ELSE {}

C37_DameRayRules ==
    [](\A sq \in Occupied(board) :
              pieces[Cell(board, sq)].type = DAME =>
                  \A i \in 1 .. 4 :
                         \A found \in {DameCaptureDir(board, pieces, sq[1], sq[2],
                                                      Directions[i], EmptyMap)},
                            landings \in {RayLandings(board, pieces, sq, i)} :
                             LET taken == Along(sq, Directions[i],
                                                FirstBlocked(board, sq, Directions[i]))
                             IN  /\ landings \subseteq DOMAIN found
                                 /\ landings = {} => found = EmptyMap
                                 /\ \A to \in DOMAIN found :
                                        /\ found[to][1] = taken
                                        /\ Len(found[to]) = 1 => to \in landings)

\* a dame sees, two squares away, an opposing piece with two free squares or
\* more behind it and lands on them; in another direction the opposing piece
\* next to it stands on the edge and no chain of the map starts with it
C37_Witness ==
    \E sq \in Occupied(board) :
        /\ pieces[Cell(board, sq)].type = DAME
        /\ \E i \in 1 .. 4 :
               /\ FirstBlocked(board, sq, Directions[i]) = 2
               /\ Cardinality(RayLandings(board, pieces, sq, i)) >= 2
               /\ RayLandings(board, pieces, sq, i)
                      \subseteq DOMAIN get_captures(board, pieces, sq[1], sq[2])
        /\ \E i \in 1 .. 4 :
               /\ Opposing(board, pieces, Cell(board, sq), Along(sq, Directions[i], 1))
               /\ Along(sq, Directions[i], 2) \notin Pos
               /\ \A to \in DOMAIN get_captures(board, pieces, sq[1], sq[2]) :
                      get_captures(board, pieces, sq[1], sq[2])[to][1]
                          # Along(sq, Directions[i], 1)

(***************************************************************************)
(* C38  Pion simple steps: for a pion with no capture, get_valid_moves     *)
(* returns exactly the squares of the board that are empty among its two   *)
(* forward diagonal neighbours (row - 1 for White, row + 1 for Black),     *)
(* each with an empty capture list: no backward step, no occupied square,  *)
(* no square more than one step away.  No capture is available when no     *)
(* neighbour holds an opposing piece with a free square behind it.         *)
(***************************************************************************)
\* the two forward diagonal neighbours of the square for the colour
ForwardNeighbours(sq, color) ==
    LET row == IF color = WHITE THEN sq[1] - 1 ELSE sq[1] + 1
    IN  {<<row, sq[2] - 1>>, <<row, sq[2] + 1>>}

C38_PionSimpleSteps ==
    \A sq \in Occupied(board) :
        \A piece \in {pieces[Cell(board, sq)]} :
            (piece.type = PION /\ PionJumps(board, pieces, sq) = {}) =>
                \A moves \in {get_valid_moves(board, pieces, sq[1], sq[2], piece.color)} :
                    /\ DOMAIN moves = {to \in ForwardNeighbours(sq, piece.color) :
                                           FreeSquare(board, to)}
                    /\ \A to \in DOMAIN moves : moves[to] = <<>>

\* a pion without capture whose one forward neighbour is occupied and whose
\* backward neighbours are free: its one destination is the other forward
\* neighbour
C38_Witness ==
    \E sq \in Occupied(board) :
        LET piece == pieces[Cell(board, sq)]
            moves == get_valid_moves(board, pieces, sq[1], sq[2], piece.color)
        IN  /\ piece.type = PION /\ ~HasCapture(board, pieces, sq)
            /\ Cardinality(DOMAIN moves) = 1
            /\ \E to \in ForwardNeighbours(sq, piece.color) : to \in Pos /\ Cell(board, to) > 0
            /\ \A to \in ForwardNeighbours(sq, Other(piece.color)) : FreeSquare(board, to)

(***************************************************************************)
(* C39  Dame simple steps: for a dame with no capture, get_valid_moves     *)
(* returns exactly the squares reached along each of the four diagonals    *)
(* through consecutive empty squares, stopping before the first occupied   *)
(* square or the edge, each with an empty capture list.  No capture is     *)
(* available when no diagonal shows an opposing piece first, with a free   *)
(* square behind it.                                                       *)
(***************************************************************************)
\* the squares of the diagonal of direction d that the free squares lead to
FreeRun(b, sq, d) ==
    {Along(sq, d, m) : m \in {n \in 1 .. BOARD_SIZE :
                                \A j \in 1 .. n : FreeSquare(b, Along(sq, d, j))}}

C39_DameSimpleSteps ==
    \A sq \in Occupied(board) :
        \A piece \in {pieces[Cell(board, sq)]} :
            (piece.type = DAME /\ DameJumps(board, pieces, sq) = {}) =>
                \A moves \in {get_valid_moves(board, pieces, sq[1], sq[2], piece.color)} :
                    /\ DOMAIN moves = UNION {FreeRun(board, sq, Directions[i]) : i \in 1 .. 4}
                    /\ \A to \in DOMAIN moves : moves[to] = <<>>

\* a dame without capture that slides three squares or more in one direction
\* and, in another, one square only, up to a piece that stands in its way
C39_Witness ==
    \E sq \in Occupied(board) :
        LET piece == pieces[Cell(board, sq)]
            moves == get_valid_moves(board, pieces, sq[1], sq[2], piece.color)
        IN  /\ piece.type = DAME /\ ~HasCapture(board, pieces, sq)
            /\ \E i \in 1 .. 4 :
                   /\ Cardinality(FreeRun(board, sq, Directions[i])) >= 3
                   /\ FreeRun(board, sq, Directions[i]) \subseteq DOMAIN moves
            /\ \E i \in 1 .. 4 :
                   /\ FreeRun(board, sq, Directions[i]) = {Along(sq, Directions[i], 1)}
                   /\ Along(sq, Directions[i], 2) \in Pos
                   /\ Along(sq, Directions[i], 2) \notin DOMAIN moves
                   /\ Along(sq, Directions[i], 3) \notin DOMAIN moves

(***************************************************************************)
(* C40  No stalemate rule: in a state where the game is not over and       *)
(* current_player has pieces on the board but none of them has a legal     *)
(* destination, a select fails or selects a piece with an empty            *)
(* valid_moves, a move is rejected, and neither call changes the board,    *)
(* the pieces, current_player or the counts; game_over stays false and the *)
(* winner empty.  The state after the call is blocked in the same way, so  *)
(* this lasts until reset.                                                 *)
(***************************************************************************)
\* the side to move has pieces on the board and no destination for any
Blocked ==
    /\ ~game_over
    /\ \E sq \in Occupied(board) : pieces[Cell(board, sq)].color = current_player
    /\ \A sq \in Occupied(board) :
           pieces[Cell(board, sq)].color = current_player
           => get_valid_moves(board, pieces, sq[1], sq[2], current_player) = EmptyMap

\* what a call leaves of a blocked state
StaysBlocked ==
    /\ last'.op = "select" => (~last'.ret \/ valid_moves' = EmptyMap)
    /\ last'.op = "move" => ~last'.ret
    /\ UNCHANGED <<board, pieces, current_player, piece_count>>
    /\ ~game_over' /\ winner' = NoWinner

C40_NoStalemateRule ==
    [][last'.op \in {"select", "move"} => (StaysBlocked \/ ~Blocked)]_vars

\* after a move the other side is blocked; it has selected a piece, which has
\* no destination, and the game is not over
C40_Witness ==
    /\ Blocked
    /\ nmoves > 0
    /\ last.op = "select" /\ last.ret
    /\ selected_piece # NoSelection /\ valid_moves = EmptyMap
    /\ winner = NoWinner

=============================================================================
